---- MODULE Spec2Model ----
(***************************************************************************)
(* A model of the diff_patch crate of rs_cub_pd: the hunk application      *)
(* engine (AbstractDiff::apply_to_lines with its helpers), the lowering of *)
(* unified hunks to abstract hunks, and the patch decomposer               *)
(* (PatchParser::parse_lines), and functions of the crate called on their  *)
(* own (the line search, the fuzz search, the base-85 codec).               *)
(*                                                                         *)
(* Index conventions.  Rust slices are zero based and half open; a TLA+    *)
(* sequence is one based, so the Rust line lines[i] is the TLA+ element    *)
(* lines[i + 1] and the Rust slice lines[a..b] is SubSeq(lines, a+1, b).   *)
(*                                                                         *)
(* Integer width.  usize and i64 are 64 bits wide and every magnitude of   *)
(* the model is far below 2^63, so a usize is kept as the mathematical     *)
(* integer n it would hold without wrapping: n >= 0 is the value n, and    *)
(* n < 0 is the wrapped value 2^64 + n.  Whether an operation that leaves  *)
(* the range panics (overflow checks on, the dev and test profiles) or     *)
(* wraps (the release profile) is the parameter oc of the operators.  The  *)
(* actions take either value until an operation has wrapped; from then on  *)
(* the build is known to wrap, which the variable wrapped records.         *)
(***************************************************************************)
EXTENDS Integers, Sequences, FiniteSets, TLC

\* ------------------------------------------------------------------ bounds
MaxLen == 2      \* longest file, in lines: the source, and the two files of a diff
MaxHunks == 2    \* most hunks in one diff

Alphabet == {"a", "b"}          \* the texts a line can hold
Tags == {" ", "-", "+"}         \* first column of a unified hunk body line

\* ------------------------------------------------- program constants
ANTE == 0
POST == 1
FUZZ_FACTOR == 2

VARIABLES
    lines,            \* apply_to_lines: the source lines being patched
    hunks,            \* TextDiff.hunks: the parsed unified hunks
    abstract_hunks,   \* AbstractDiff.hunks: the lowered hunks
    reverse,          \* apply_to_lines: the direction
    pc,               \* "lower", "apply", "rest", "done" or "panic"
    hunk_index,       \* apply_to_lines: zero-based index of the next hunk
    lines_index,      \* apply_to_lines: next source line to copy
    current_offset,   \* apply_to_lines: displacement of the source (i64)
    result,           \* ApplnResult
    err_w,            \* the diagnostics written, one record per line
    run,              \* 1: first application, 2: application to its output
    first,            \* the first application's source and result
    wrapped,          \* an overflow has wrapped: overflow checks are off
    input,            \* parse_lines: the lines to decompose
    ppc,              \* "idle", "parse", "patch", "none", "err", "overflow", "iterated"
    patch,            \* the Patch parse_lines returned, <<>> without one
    yielded,          \* the lines Patch::iter yielded
    error,            \* the DiffParseError parse_lines returned, <<>> without one
    call,             \* a function called on its own: its name and arguments
    ret               \* what the call returned, <<>> before it has

\* the variables of the engine and those of the patch decomposer
evars == <<lines, hunks, abstract_hunks, reverse, pc, hunk_index, lines_index,
           current_offset, result, err_w, run, first, wrapped>>
pvars == <<input, ppc, patch, yielded, error>>
\* the variables of a single function call
fvars == <<call, ret>>
vars == <<evars, pvars, fvars>>

\* ------------------------------------------------------------- utilities
Min(a, b) == IF a <= b THEN a ELSE b
Max(a, b) == IF a >= b THEN a ELSE b
SetMin(S) == CHOOSE x \in S : \A y \in S : x <= y

\* Rust's s[a..b] (zero based, half open); defined when SliceOk(s, a, b)
Slice(s, a, b) == SubSeq(s, a + 1, b)
\* s[a..b] panics unless a <= b <= len, compared as unsigned integers
SliceOk(s, a, b) == a >= 0 /\ a <= b /\ b <= Len(s)

NoneVal == [tag |-> "none"]
SomeVal(i) == [tag |-> "some", index |-> i]
PanicVal == [tag |-> "panic"]

\* ------------------------------------------------------- lines.rs
conflict_start_marker == "<<<<<<<"
conflict_separation_marker == "======="
conflict_end_marker == ">>>>>>>"

\* "T", "F", or "P" when the call panics
contains_sub_lines_at(self, sub_lines, index, oc) ==
    LET sum == Len(sub_lines) + index
        overflow == index < 0 /\ sum >= 0
    IN  IF overflow
        THEN IF oc THEN "P"
             \* wrapped: the sum is small again; past the guard the slice
             \* self[index..sum] starts after its end
             ELSE IF sum > Len(self) THEN "F" ELSE "P"
        ELSE IF index < 0 \/ sum > Len(self) THEN "F"
        ELSE IF \A k \in 1..Len(sub_lines) : self[index + k] = sub_lines[k]
             THEN "T" ELSE "F"

find_first_sub_lines(self, sub_lines, start_index, oc) ==
    LET last == start_index + Len(self) - Len(sub_lines)  \* range end - 1
    IN  IF last < 0
        THEN \* start_index + self.len() - sub_lines.len() leaves usize
             IF oc THEN PanicVal
             \* wrapped: 2^64 - 1 + 1 = 0 is an empty range; any other end
             \* is a range of about 2^64 indices, none of which matches
             \* until index + sub_lines.len() wraps and the slice panics
             ELSE IF last = 0 - 1 THEN NoneVal ELSE PanicVal
        ELSE LET found == {i \in start_index..last :
                             contains_sub_lines_at(self, sub_lines, i, oc) = "T"}
             IN  IF found = {} THEN NoneVal ELSE SomeVal(SetMin(found))

first_inequality_fm_head(lines1, lines2) ==
    LET n == Min(Len(lines1), Len(lines2))
        diff == {k \in 0..(n - 1) : lines1[k + 1] # lines2[k + 1]}
    IN  IF diff # {} THEN SomeVal(SetMin(diff))
        ELSE IF Len(lines1) = Len(lines2) THEN NoneVal
        ELSE SomeVal(n)

first_inequality_fm_tail(lines1, lines2) ==
    LET n == Min(Len(lines1), Len(lines2))
        diff == {k \in 0..(n - 1) :
                   lines1[Len(lines1) - k] # lines2[Len(lines2) - k]}
    IN  IF diff # {} THEN SomeVal(SetMin(diff))
        ELSE IF Len(lines1) > Len(lines2) THEN SomeVal(Len(lines1) - Len(lines2))
        ELSE IF Len(lines2) > Len(lines1) THEN SomeVal(Len(lines2) - Len(lines1))
        ELSE NoneVal

\* ------------------------------------------------------- lib.rs
apply_offset(self, offset) == self + offset


\* ------------------------------------------------ text_diff.rs, unified_diff.rs
\* A body line of a unified hunk is <<first column, text>>.  The lines kept
\* are those the skip test lets through, less their first column.
extract_source_lines(body, skip_tag) ==
    LET kept == SelectSeq(body, LAMBDA l : l[1] # skip_tag /\ l[1] # "\\")
    IN  [i \in 1..Len(kept) |-> kept[i][2]]

ante_lines(uhunk) == extract_source_lines(uhunk.lines, "+")
post_lines(uhunk) == extract_source_lines(uhunk.lines, "-")

\* ------------------------------------------------------- abstract_diff.rs
AbstractChunk(start_index, chunk_lines) ==
    [start_index |-> start_index, lines |-> chunk_lines]

end_index(chunk) == chunk.start_index + Len(chunk.lines)

matches_lines(chunk, ls, offset, oc) ==
    contains_sub_lines_at(ls, chunk.lines, apply_offset(chunk.start_index, offset), oc)

\* AbstractHunk::new: both unwrap() calls panic on None, that is when the two
\* line sequences are equal
AbstractHunk_new(ante_chunk, post_chunk) ==
    LET h == first_inequality_fm_head(ante_chunk.lines, post_chunk.lines)
        t == first_inequality_fm_tail(ante_chunk.lines, post_chunk.lines)
    IN  IF h.tag = "none" \/ t.tag = "none" THEN PanicVal
        ELSE [tag |-> "ok",
              hunk |-> [chunk |-> (ANTE :> ante_chunk @@ POST :> post_chunk),
                        ante_context_len |-> h.index,
                        post_context_len |-> t.index]]

\* UnifiedDiffHunk::get_abstract_diff_hunk: start_line_num - 1 leaves usize
\* when the line number is 0
get_abstract_diff_hunk(uhunk, oc) ==
    LET al == ante_lines(uhunk)
        pl == post_lines(uhunk)
        ante_start == IF Len(al) > 0 THEN uhunk.ante_chunk.start_line_num - 1
                      ELSE uhunk.ante_chunk.start_line_num
        post_start == uhunk.post_chunk.start_line_num - 1
    IN  IF oc /\ (ante_start < 0 \/ post_start < 0) THEN PanicVal
        ELSE AbstractHunk_new(AbstractChunk(ante_start, al),
                              AbstractChunk(post_start, pl))

RECURSIVE compromised_from(_, _, _, _, _, _, _)
compromised_from(hunk, ls, start_index, fuzz_factor, rev, oc, context_redn) ==
    IF context_redn > Min(fuzz_factor,
                          Max(hunk.ante_context_len, hunk.post_context_len))
    THEN NoneVal
    ELSE LET ante_context_redn == Min(context_redn, hunk.ante_context_len)
             post_context_redn == Min(context_redn, hunk.post_context_len)
             fm == ante_context_redn
             ante == IF rev THEN POST ELSE ANTE
             al == hunk.chunk[ante].lines
             to == Len(al) - post_context_redn
         IN  \* to < 0: the subtraction panics, or wraps and the slice end is
             \* out of range; fm > to: the slice starts after its end
             IF ~SliceOk(al, fm, to) THEN PanicVal
             ELSE LET f == find_first_sub_lines(ls, Slice(al, fm, to), start_index, oc)
                  IN  IF f.tag = "panic" THEN PanicVal
                      ELSE IF f.tag = "some"
                      THEN [tag |-> "some", start_index |-> f.index,
                            ante_context_redn |-> ante_context_redn,
                            post_context_redn |-> post_context_redn]
                      ELSE compromised_from(hunk, ls, start_index, fuzz_factor,
                                            rev, oc, context_redn + 1)

get_compromised_posn(hunk, ls, start_index, fuzz_factor, rev, oc) ==
    compromised_from(hunk, ls, start_index, fuzz_factor, rev, oc, 0)

get_applied_posn(hunk, end_posn, post_context_redn, rev, oc) ==
    LET post == IF rev THEN ANTE ELSE POST
        length == Len(hunk.chunk[post].lines) - hunk.ante_context_len
                      - hunk.post_context_len
        kept == hunk.post_context_len - post_context_redn
        start_posn == end_posn - length - kept + 1
    IN  IF oc /\ (Len(hunk.chunk[post].lines) - hunk.ante_context_len < 0
                  \/ length < 0 \/ kept < 0
                  \/ end_posn - length < 0 \/ end_posn - length - kept < 0)
        THEN PanicVal
        ELSE [tag |-> "ok", start_posn |-> start_posn, length |-> length]

is_already_applied(hunk, ls, offset, rev, oc) ==
    LET ante == IF rev THEN POST ELSE ANTE
        post == IF rev THEN ANTE ELSE POST
        fr_offset == hunk.chunk[ante].start_index - hunk.chunk[post].start_index
    IN  matches_lines(hunk.chunk[post], ls, fr_offset + offset, oc)

\* length_diff with the direction left out
length_diffForward(hunk, rev) ==
    Len(hunk.chunk[POST].lines) - Len(hunk.chunk[ANTE].lines)

length_diff(hunk, rev) ==
    IF rev THEN Len(hunk.chunk[ANTE].lines) - Len(hunk.chunk[POST].lines)
    ELSE Len(hunk.chunk[POST].lines) - Len(hunk.chunk[ANTE].lines)

len_minus_post_context(hunk, rev) ==
    IF rev THEN Len(hunk.chunk[ANTE].lines) - hunk.post_context_len
    ELSE Len(hunk.chunk[POST].lines) - hunk.post_context_len

ApplnResult_default ==
    [lines |-> <<>>, successes |-> 0, merges |-> 0, already_applied |-> 0,
     failures |-> 0]


\* ------------------------------------- apply_to_lines: one pass of the hunk loop
\* What a pass leaves behind: the strategy that took the hunk ("panic" when
\* the pass panicked) and the loop state after it.
Outcome(kind, li, offset, res, ew) ==
    [kind |-> kind, lines_index |-> li, current_offset |-> offset,
     result |-> res, err_w |-> ew]

PanicOutcome == Outcome("panic", lines_index, current_offset, result, err_w)

\* (a) with the source-side lines written in place of the target-side ones
ExactStepKeepsSource(hunk, ante, post) ==
    LET index == apply_offset(hunk.chunk[ante].start_index, current_offset)
    IN  IF ~SliceOk(lines, lines_index, index) THEN PanicOutcome
        ELSE Outcome("exact",
                 apply_offset(hunk.chunk[ante].start_index
                                  + Len(hunk.chunk[ante].lines), current_offset),
                 current_offset,
                 [result EXCEPT
                    !.lines = @ \o Slice(lines, lines_index, index)
                                \o hunk.chunk[ante].lines,
                    !.successes = @ + 1],
                 err_w)

\* (a) lines 194-206
ExactStep(hunk, ante, post) ==
    LET index == apply_offset(hunk.chunk[ante].start_index, current_offset)
    IN  IF ~SliceOk(lines, lines_index, index) THEN PanicOutcome
        ELSE Outcome("exact",
                 apply_offset(hunk.chunk[ante].start_index
                                  + Len(hunk.chunk[ante].lines), current_offset),
                 current_offset,
                 [result EXCEPT
                    !.lines = @ \o Slice(lines, lines_index, index)
                                \o hunk.chunk[post].lines,
                    !.successes = @ + 1],
                 err_w)

\* (b) with the leading reduction left out of the offset
MergeStepNoReduction(hunk, ante, post, cpd, oc) ==
    LET end == Len(hunk.chunk[ante].lines) - cpd.post_context_redn
        out == result.lines \o Slice(lines, lines_index, cpd.start_index)
                   \o Slice(hunk.chunk[ante].lines, cpd.ante_context_redn, end)
        applied_posn == get_applied_posn(hunk, Len(out), cpd.post_context_redn,
                                         reverse, oc)
    IN  IF ~SliceOk(lines, lines_index, cpd.start_index) THEN PanicOutcome
        ELSE IF applied_posn.tag = "panic" THEN PanicOutcome
        ELSE Outcome("merge",
                 cpd.start_index + Len(hunk.chunk[ante].lines)
                     - cpd.ante_context_redn - cpd.post_context_redn,
                 cpd.start_index - hunk.chunk[ante].start_index,
                 [result EXCEPT !.lines = out, !.merges = @ + 1],
                 Append(err_w, [kind |-> "merged", hunk |-> hunk_index + 1,
                                start_posn |-> applied_posn.start_posn,
                                length |-> applied_posn.length]))

\* (b) lines 207-243
MergeStep(hunk, ante, post, cpd, oc) ==
    LET end == Len(hunk.chunk[ante].lines) - cpd.post_context_redn
        out == result.lines \o Slice(lines, lines_index, cpd.start_index)
                   \o Slice(hunk.chunk[ante].lines, cpd.ante_context_redn, end)
        applied_posn == get_applied_posn(hunk, Len(out), cpd.post_context_redn,
                                         reverse, oc)
    IN  IF ~SliceOk(lines, lines_index, cpd.start_index) THEN PanicOutcome
        ELSE IF applied_posn.tag = "panic" THEN PanicOutcome
        ELSE Outcome("merge",
                 cpd.start_index + Len(hunk.chunk[ante].lines)
                     - cpd.ante_context_redn - cpd.post_context_redn,
                 cpd.start_index - hunk.chunk[ante].start_index
                     - cpd.ante_context_redn,
                 [result EXCEPT !.lines = out, !.merges = @ + 1],
                 Append(err_w, [kind |-> "merged", hunk |-> hunk_index + 1,
                                start_posn |-> applied_posn.start_posn,
                                length |-> applied_posn.length]))

\* (c) lines 244-272
AlreadyStep(hunk, ante, post, oc) ==
    LET new_lines_index == apply_offset(end_index(hunk.chunk[post]), current_offset)
        out == result.lines \o Slice(lines, lines_index, new_lines_index)
        applied_posn == get_applied_posn(hunk, Len(out), 0, reverse, oc)
    IN  IF ~SliceOk(lines, lines_index, new_lines_index) THEN PanicOutcome
        ELSE IF applied_posn.tag = "panic" THEN PanicOutcome
        ELSE Outcome("already",
                 new_lines_index,
                 current_offset + length_diff(hunk, reverse),
                 [result EXCEPT !.lines = out, !.already_applied = @ + 1],
                 Append(err_w, [kind |-> "already", hunk |-> hunk_index + 1,
                                start_posn |-> applied_posn.start_posn,
                                length |-> applied_posn.length]))

\* (d) with the hunk at hand alone counted as a failure
EofStepOne ==
    LET remaining_hunks == Len(abstract_hunks) - hunk_index
    IN  Outcome("eof", lines_index, current_offset,
                [result EXCEPT !.failures = @ + 1],
                Append(err_w, [kind |-> "eof", hunk |-> hunk_index + 1,
                               last_hunk |-> IF remaining_hunks > 1
                                             THEN Len(abstract_hunks)
                                             ELSE hunk_index + 1]))

\* (d) lines 273-296
EofStep ==
    LET remaining_hunks == Len(abstract_hunks) - hunk_index
    IN  Outcome("eof", lines_index, current_offset,
                [result EXCEPT !.failures = @ + remaining_hunks],
                Append(err_w, [kind |-> "eof", hunk |-> hunk_index + 1,
                               last_hunk |-> IF remaining_hunks > 1
                                             THEN Len(abstract_hunks)
                                             ELSE hunk_index + 1]))

\* (e) with the conflict counted as a failure
ConflictStepCounted(hunk, ante, post, ante_hlen) ==
    LET end == apply_offset(hunk.chunk[ante].start_index, current_offset)
        upto == len_minus_post_context(hunk, reverse)
        out == result.lines \o Slice(lines, lines_index, end)
                   \o <<conflict_start_marker>>
                   \o Slice(lines, end, end + ante_hlen)
                   \o <<conflict_separation_marker>>
                   \o Slice(hunk.chunk[post].lines, 0, upto)
                   \o <<conflict_end_marker>>
    IN  IF ~SliceOk(lines, lines_index, end) THEN PanicOutcome
        ELSE IF ~SliceOk(lines, end, end + ante_hlen) THEN PanicOutcome
        ELSE IF ~SliceOk(hunk.chunk[post].lines, 0, upto) THEN PanicOutcome
        ELSE Outcome("conflict", end + ante_hlen, current_offset,
                 [result EXCEPT !.lines = out, !.failures = @ + 1],
                 Append(err_w, [kind |-> "conflict", hunk |-> hunk_index + 1,
                                start_line |-> Len(result.lines) + end - lines_index + 1,
                                end_line |-> Len(out)]))

\* (e) with the range taken inside the markers
ConflictStepInner(hunk, ante, post, ante_hlen) ==
    LET end == apply_offset(hunk.chunk[ante].start_index, current_offset)
        upto == len_minus_post_context(hunk, reverse)
        out == result.lines \o Slice(lines, lines_index, end)
                   \o <<conflict_start_marker>>
                   \o Slice(lines, end, end + ante_hlen)
                   \o <<conflict_separation_marker>>
                   \o Slice(hunk.chunk[post].lines, 0, upto)
                   \o <<conflict_end_marker>>
    IN  IF ~SliceOk(lines, lines_index, end) THEN PanicOutcome
        ELSE IF ~SliceOk(lines, end, end + ante_hlen) THEN PanicOutcome
        ELSE IF ~SliceOk(hunk.chunk[post].lines, 0, upto) THEN PanicOutcome
        ELSE Outcome("conflict", end + ante_hlen, current_offset,
                 [result EXCEPT !.lines = out],
                 Append(err_w, [kind |-> "conflict", hunk |-> hunk_index + 1,
                                start_line |-> Len(result.lines) + end - lines_index + 2,
                                end_line |-> Len(out) - 1]))

\* (e) lines 297-333
ConflictStep(hunk, ante, post, ante_hlen) ==
    LET end == apply_offset(hunk.chunk[ante].start_index, current_offset)
        upto == len_minus_post_context(hunk, reverse)
        out1 == Append(result.lines \o Slice(lines, lines_index, end),
                       conflict_start_marker)
        start_line == Len(out1)
        out2 == Append(out1 \o Slice(lines, end, end + ante_hlen),
                       conflict_separation_marker)
        out3 == Append(out2 \o Slice(hunk.chunk[post].lines, 0, upto),
                       conflict_end_marker)
        end_line == Len(out3)
    IN  IF ~SliceOk(lines, lines_index, end) THEN PanicOutcome
        ELSE IF ~SliceOk(lines, end, end + ante_hlen) THEN PanicOutcome
        \* upto < 0: the subtraction panics, or wraps past the slice's end
        ELSE IF ~SliceOk(hunk.chunk[post].lines, 0, upto) THEN PanicOutcome
        ELSE Outcome("conflict", end + ante_hlen, current_offset,
                 [result EXCEPT !.lines = out3],
                 Append(err_w, [kind |-> "conflict", hunk |-> hunk_index + 1,
                                start_line |-> start_line,
                                end_line |-> end_line]))

\* a > b for two usize values, either of which may have wrapped
UGt(a, b) == IF (a < 0) = (b < 0) THEN a > b ELSE a < 0

\* lines 273-274, then (d) or (e)
TailStep(hunk, ante, post, oc) ==
    LET ante_hlen == Len(hunk.chunk[ante].lines) - hunk.post_context_len
    IN  IF oc /\ ante_hlen < 0 THEN PanicOutcome
        ELSE IF UGt(apply_offset(hunk.chunk[ante].start_index + ante_hlen,
                                 current_offset), Len(lines))
        THEN EofStep
        ELSE ConflictStep(hunk, ante, post, ante_hlen)

\* The body of the loop for the hunk at hunk_index, lines 193-334
Step(oc) ==
    LET hunk == abstract_hunks[hunk_index + 1]
        ante == IF reverse THEN POST ELSE ANTE
        post == IF reverse THEN ANTE ELSE POST
        m == matches_lines(hunk.chunk[ante], lines, current_offset, oc)
        cpd == get_compromised_posn(hunk, lines, lines_index, FUZZ_FACTOR, reverse, oc)
        aa == is_already_applied(hunk, lines, current_offset, reverse, oc)
    IN  IF m = "P" THEN PanicOutcome
        ELSE IF m = "T" THEN ExactStep(hunk, ante, post)
        ELSE IF cpd.tag = "panic" THEN PanicOutcome
        ELSE IF cpd.tag = "some" THEN MergeStep(hunk, ante, post, cpd, oc)
        ELSE IF aa = "P" THEN PanicOutcome
        ELSE IF aa = "T" THEN AlreadyStep(hunk, ante, post, oc)
        ELSE TailStep(hunk, ante, post, oc)


\* ------------------------------------------------------------- the inputs
\* Source files: every line sequence over the alphabet, up to MaxLen lines.
Sources == UNION {[1..n -> Alphabet] : n \in 0..MaxLen}

\* Most body lines in one diff, over all its hunks
MaxBody == MaxLen + 1

\* Hunk bodies as a diff tool writes them around one group of changes:
\* leading context, deletions, insertions, trailing context (stage 0 to 3),
\* with at most max_ante lines on the ante side, max_post on the post side
\* and budget lines in all.
RECURSIVE BodiesWithin(_, _, _, _)
BodiesWithin(max_ante, max_post, budget, stage) ==
    {<<>>} \cup
    UNION {{<<l>> \o rest :
               rest \in BodiesWithin(max_ante - (IF l[1] = "+" THEN 0 ELSE 1),
                                     max_post - (IF l[1] = "-" THEN 0 ELSE 1),
                                     budget - 1,
                                     IF l[1] = "-" THEN 1
                                     ELSE IF l[1] = "+" THEN 2
                                     ELSE IF stage = 0 THEN 0 ELSE 3)} :
            l \in {t \in Tags \X Alphabet :
                      /\ budget > 0
                      /\ t[1] = "+" \/ max_ante > 0
                      /\ t[1] = "-" \/ max_post > 0
                      /\ t[1] = "-" => stage <= 1
                      /\ t[1] = "+" => stage <= 2}}

\* Diffs as a diff tool lays them out between two files of at most MaxLen
\* lines: hunks in ascending order that do not overlap, each given by the
\* zero-based position of its first ante line and its body.  grown is the
\* number of lines the hunks before this one add to the file, budget the
\* body lines left to this hunk and those after it.
RECURSIVE Layouts(_, _, _, _)
Layouts(min_pos, grown, count, budget) ==
    IF count = 0 THEN {<<>>}
    ELSE {<<>>} \cup
         UNION {UNION {{<<[pos |-> p, body |-> b]>> \o rest :
                          rest \in Layouts(
                              p + Len(extract_source_lines(b, "+")),
                              grown + Len(extract_source_lines(b, "-"))
                                    - Len(extract_source_lines(b, "+")),
                              count - 1,
                              budget - Len(b))} :
                       b \in BodiesWithin(MaxLen - p, MaxLen - p - grown,
                                          budget, 0) \ {<<>>}} :
                 p \in {x \in min_pos..MaxLen : x + grown <= MaxLen}}

\* Lines the hunks before the i-th one add to the file
RECURSIVE Growth(_, _)
Growth(layout, i) ==
    IF i <= 1 THEN 0
    ELSE Growth(layout, i - 1)
             + Len(extract_source_lines(layout[i - 1].body, "-"))
             - Len(extract_source_lines(layout[i - 1].body, "+"))

\* The hunk header numbers of '@@ -l,s +l,s @@': one-based start lines, and
\* for an empty side the line before it
UnifiedDiffChunk(position, length) ==
    [start_line_num |-> IF length = 0 THEN position ELSE position + 1,
     length |-> length]

UnifiedDiffHunk(layout, i) ==
    [lines |-> layout[i].body,
     ante_chunk |-> UnifiedDiffChunk(layout[i].pos,
                        Len(extract_source_lines(layout[i].body, "+"))),
     post_chunk |-> UnifiedDiffChunk(layout[i].pos + Growth(layout, i),
                        Len(extract_source_lines(layout[i].body, "-")))]

Diffs == {[i \in 1..Len(layout) |-> UnifiedDiffHunk(layout, i)] :
             layout \in Layouts(0, 0, MaxHunks, MaxBody) \ {<<>>}}

\* ------------------------------------------------------------- the actions
Init ==
    /\ lines \in Sources
    /\ hunks \in Diffs
    /\ reverse = FALSE
    /\ abstract_hunks = <<>>
    /\ pc = "lower"
    /\ hunk_index = 0
    /\ lines_index = 0
    /\ current_offset = 0
    /\ result = ApplnResult_default
    /\ err_w = <<>>
    /\ run = 1
    /\ first = [lines |-> <<>>, result |-> ApplnResult_default]
    /\ wrapped = FALSE
    /\ input = <<>>
    /\ ppc = "idle"
    /\ patch = <<>>
    /\ yielded = <<>>
    /\ error = <<>>
    /\ call = <<>>
    /\ ret = <<>>

\* The overflow behaviours the build can still have
Checks == IF wrapped THEN {FALSE} ELSE BOOLEAN

\* lowering of every hunk of the diff
Lowered(oc) == [i \in 1..Len(hunks) |-> get_abstract_diff_hunk(hunks[i], oc)]

\* TextDiff::apply_to_lines: every hunk is lowered, then the engine starts
Lower ==
    /\ pc = "lower"
    /\ \E oc \in Checks :
         LET lowered == Lowered(oc)
         IN  IF \E i \in 1..Len(hunks) : lowered[i].tag = "panic"
             THEN pc' = "panic" /\ UNCHANGED <<abstract_hunks, wrapped>>
             ELSE /\ abstract_hunks' = [i \in 1..Len(hunks) |-> lowered[i].hunk]
                  /\ pc' = "apply"
                  /\ wrapped' = (wrapped \/ lowered # Lowered(TRUE))
    /\ UNCHANGED <<lines, hunks, reverse, hunk_index, lines_index,
                   current_offset, result, err_w, run, first>>
    /\ UNCHANGED <<pvars, fvars>>

Commit(o, oc) ==
    /\ wrapped' = (wrapped \/ o # Step(TRUE))
    /\ lines_index' = o.lines_index
    /\ current_offset' = o.current_offset
    /\ result' = o.result
    /\ err_w' = o.err_w
    /\ hunk_index' = hunk_index + 1
    /\ pc' = IF hunk_index + 1 < Len(abstract_hunks) THEN "apply" ELSE "rest"
    /\ UNCHANGED <<lines, hunks, abstract_hunks, reverse, run, first>>
    /\ UNCHANGED <<pvars, fvars>>

InLoop == pc = "apply" /\ hunk_index < Len(abstract_hunks)

ExactPlacement ==
    /\ InLoop
    /\ \E oc \in Checks :
         LET o == Step(oc) IN o.kind = "exact" /\ Commit(o, oc)

FuzzedPlacement ==
    /\ InLoop
    /\ \E oc \in Checks :
         LET o == Step(oc) IN o.kind = "merge" /\ Commit(o, oc)

AlreadyApplied ==
    /\ InLoop
    /\ \E oc \in Checks :
         LET o == Step(oc) IN o.kind = "already" /\ Commit(o, oc)

ConflictEmission ==
    /\ InLoop
    /\ \E oc \in Checks :
         LET o == Step(oc) IN o.kind = "conflict" /\ Commit(o, oc)

\* the break of line 295 leaves the loop with the hunks after this one unread
EndOfInput ==
    /\ InLoop
    /\ \E oc \in Checks :
         LET o == Step(oc)
         IN  /\ o.kind = "eof" /\ result' = o.result /\ err_w' = o.err_w
             /\ wrapped' = (wrapped \/ o # Step(TRUE))
    /\ pc' = "rest"
    /\ UNCHANGED <<lines, hunks, abstract_hunks, reverse, hunk_index,
                   lines_index, current_offset, run, first>>
    /\ UNCHANGED <<pvars, fvars>>

\* a panic unwinds apply_to_lines: no result is returned
HunkPanic ==
    /\ InLoop
    /\ \E oc \in Checks : Step(oc).kind = "panic"
    /\ pc' = "panic"
    /\ UNCHANGED <<lines, hunks, abstract_hunks, reverse, hunk_index,
                   lines_index, current_offset, result, err_w, run, first,
                   wrapped>>
    /\ UNCHANGED <<pvars, fvars>>

\* lines 335-338
CopyRest ==
    /\ pc = "rest"
    /\ IF SliceOk(lines, lines_index, Len(lines))
       THEN /\ result' = [result EXCEPT
                            !.lines = @ \o Slice(lines, lines_index, Len(lines))]
            /\ pc' = "done"
       ELSE pc' = "panic" /\ UNCHANGED result
    /\ UNCHANGED <<lines, hunks, abstract_hunks, reverse, hunk_index,
                   lines_index, current_offset, err_w, run, first, wrapped>>
    /\ UNCHANGED <<pvars, fvars>>

\* The same diff applied, in either direction, to the lines a forward
\* application in which every hunk was a success returned
Reapply ==
    /\ pc = "done"
    /\ run = 1
    /\ ~reverse
    /\ result.successes = Len(abstract_hunks)
    /\ first' = [lines |-> lines, result |-> result]
    /\ lines' = result.lines
    /\ reverse' \in BOOLEAN
    /\ run' = 2
    /\ pc' = "apply"
    /\ hunk_index' = 0
    /\ lines_index' = 0
    /\ current_offset' = 0
    /\ result' = ApplnResult_default
    /\ err_w' = <<>>
    /\ UNCHANGED <<hunks, abstract_hunks, wrapped>>
    /\ UNCHANGED <<pvars, fvars>>

Next ==
    \/ Lower
    \/ ExactPlacement
    \/ FuzzedPlacement
    \/ AlreadyApplied
    \/ EndOfInput
    \/ ConflictEmission
    \/ HunkPanic
    \/ CopyRest
    \/ Reapply

Spec == Init /\ [][Next]_vars

\* ============================================================ patch.rs
\* The patch decomposer reads lines of these kinds.  No line of the alphabet
\* starts with '***' or '\', so the context parser finds no file header and
\* no hunk, and no hunk ends in a '\ No newline' line.
GitLine == "diff --git a b"
IndexLine == "index 1..2"
ModeLine == "new mode 7"
AnteLine == "--- a"
PostLine == "+++ b"
HunkLine == "@@ -1 +1 @@"
BodyLine == " x"
PatchAlphabet ==
    {GitLine, IndexLine, ModeLine, AnteLine, PostLine, HunkLine, BodyLine}

MaxInput == 5    \* longest input of the patch decomposer, in lines

Inputs == UNION {[1..n -> PatchAlphabet] : n \in 0..MaxInput}

ErrVal(e) == [tag |-> "err", error |-> e]
\* a DiffParseError with the usize it carries
ErrAt(e, n) == [tag |-> "err", error |-> e, position |-> n]

\* str::starts_with for the one-character prefixes the parsers test
starts_with(line, prefix) ==
    CASE prefix = "-" -> line = AnteLine
      [] prefix = "+" -> line = PostLine
      [] prefix = " " -> line = BodyLine
      [] OTHER -> FALSE

\* ---------------------------------------------------------- preamble.rs
diff_cre(line) == line = GitLine

\* the key (capture 1) of the first of extras_cres to match, "" for no match
extras_cres(line) ==
    IF line = IndexLine THEN "index"
    ELSE IF line = ModeLine THEN "new mode"
    ELSE ""

\* the loop of lines 142-160: extras maps a key to the offset of the last
\* line that holds it, a HashMap insert replacing an earlier one
RECURSIVE extras_from(_, _, _, _)
extras_from(ls, start_index, index, extras) ==
    IF index < Len(ls) /\ extras_cres(ls[index + 1]) # ""
    THEN extras_from(ls, start_index, index + 1,
             [k \in DOMAIN extras \cup {extras_cres(ls[index + 1])} |->
                 IF k = extras_cres(ls[index + 1]) THEN index - start_index
                 ELSE extras[k]])
    ELSE extras

\* GitPreambleParser::get_preamble_at
GitPreamble_at(ls, start_index) ==
    IF ~diff_cre(ls[start_index + 1]) THEN NoneVal
    ELSE LET extras == extras_from(ls, start_index, start_index + 1, <<>>)
         IN  [tag |-> "some",
              preamble |->
                 [lines |-> Slice(ls, start_index,
                                  start_index + Cardinality(DOMAIN extras) + 1),
                  extras |-> extras]]

GitPreamble_len(preamble) == Len(preamble.lines)
GitPreamble_iter(preamble) == preamble.lines

\* PreambleParser::get_preamble_at and Preamble: the git form is the only one
get_preamble_at(ls, start_index) ==
    LET git == GitPreamble_at(ls, start_index)
    IN  IF git.tag = "none" THEN NoneVal
        ELSE [tag |-> "some", preamble |-> [kind |-> "Git", git |-> git.preamble]]

Preamble_len(preamble) == GitPreamble_len(preamble.git)
Preamble_iter(preamble) == GitPreamble_iter(preamble.git)


\* ------------------------------------- unified_diff.rs, context_diff.rs
ante_file_rec(format, line) ==
    IF format = "Unified" THEN line = AnteLine ELSE FALSE   \* context: '*** path'
post_file_rec(format, line) ==
    IF format = "Unified" THEN line = PostLine ELSE line = AnteLine

\* UnifiedDiffChunk::from_captures on the one hunk header of the alphabet:
\* an omitted count is 1
hunk_data_cre(line) ==
    IF line = HunkLine
    THEN [tag |-> "some",
          ante_chunk |-> [start_line_num |-> 1, length |-> 1],
          post_chunk |-> [start_line_num |-> 1, length |-> 1]]
    ELSE NoneVal

\* the loop of UnifiedDiffParser::get_hunk_at, lines 252-273: the index after
\* the hunk's last line
RECURSIVE hunk_end_from(_, _, _, _, _, _)
hunk_end_from(ls, index, ante_count, post_count, ante_length, post_length) ==
    IF ante_count < ante_length \/ post_count < post_length
    THEN IF index >= Len(ls) THEN ErrVal("UnexpectedEndOfInput")
         ELSE IF starts_with(ls[index + 1], "-")
         THEN hunk_end_from(ls, index + 1, ante_count + 1, post_count,
                            ante_length, post_length)
         ELSE IF starts_with(ls[index + 1], "+")
         THEN hunk_end_from(ls, index + 1, ante_count, post_count + 1,
                            ante_length, post_length)
         ELSE IF starts_with(ls[index + 1], " ")
         THEN hunk_end_from(ls, index + 1, ante_count + 1, post_count + 1,
                            ante_length, post_length)
         ELSE IF ~starts_with(ls[index + 1], "\\")
         THEN ErrAt("UnexpectedEndHunk", index)
         ELSE hunk_end_from(ls, index + 1, ante_count, post_count,
                            ante_length, post_length)
    ELSE IF index < Len(ls) /\ starts_with(ls[index + 1], "\\")
         THEN SomeVal(index + 1)
         ELSE SomeVal(index)

\* TextDiffParser::get_hunk_at.  Context: hunk_start_cre wants fifteen '*'.
get_hunk_at(format, ls, start_index) ==
    IF format = "Context" THEN NoneVal
    ELSE LET captures == hunk_data_cre(ls[start_index + 1])
         IN  IF captures.tag = "none" THEN NoneVal
             ELSE LET end == hunk_end_from(ls, start_index + 1, 0, 0,
                                           captures.ante_chunk.length,
                                           captures.post_chunk.length)
                  IN  IF end.tag = "err" THEN end
                      ELSE [tag |-> "some",
                            hunk |-> [lines |-> Slice(ls, start_index, end.index),
                                      ante_chunk |-> captures.ante_chunk,
                                      post_chunk |-> captures.post_chunk]]

TextDiffHunk_len(hunk) == Len(hunk.lines)
TextDiffHunk_iter(hunk) == hunk.lines

\* -------------------------------------------------------- text_diff.rs
get_text_diff_header_at(format, ls, start_index) ==
    IF ~ante_file_rec(format, ls[start_index + 1]) THEN NoneVal
    ELSE IF ~post_file_rec(format, ls[start_index + 2])
    THEN ErrAt("MissingAfterFileData", start_index)
    ELSE [tag |-> "some",
          header |-> [lines |-> Slice(ls, start_index, start_index + 2)]]

\* the loop of get_diff_at, lines 151-158
RECURSIVE hunks_from(_, _, _, _)
hunks_from(format, ls, index, parsed) ==
    IF index < Len(ls)
    THEN LET hunk == get_hunk_at(format, ls, index)
         IN  IF hunk.tag = "err" THEN hunk
             ELSE IF hunk.tag = "some"
             THEN hunks_from(format, ls, index + TextDiffHunk_len(hunk.hunk),
                             Append(parsed, hunk.hunk))
             ELSE [tag |-> "ok", hunks |-> parsed]
    ELSE [tag |-> "ok", hunks |-> parsed]

TextDiff_get_diff_at(format, ls, start_index) ==
    IF Len(ls) - start_index < 2 THEN NoneVal
    ELSE LET header == get_text_diff_header_at(format, ls, start_index)
         IN  IF header.tag # "some" THEN header
             ELSE LET parsed == hunks_from(format, ls,
                                    start_index + Len(header.header.lines), <<>>)
                  IN  IF parsed.tag = "err" THEN parsed
                      ELSE [tag |-> "some",
                            diff |-> [diff_format |-> format,
                                      header |-> header.header,
                                      hunks |-> parsed.hunks]]

RECURSIVE SumLen(_)
SumLen(hs) ==
    IF hs = <<>> THEN 0 ELSE TextDiffHunk_len(Head(hs)) + SumLen(Tail(hs))

RECURSIVE Flatten(_)
Flatten(lists) ==
    IF lists = <<>> THEN <<>> ELSE Head(lists) \o Flatten(Tail(lists))

\* MultiListIter: the items of its iterators, one iterator after the other
MultiListIter(iters) == Flatten(iters)

TextDiff_len(diff) == Len(diff.header.lines) + SumLen(diff.hunks)
TextDiff_iter(diff) ==
    MultiListIter(<<diff.header.lines>>
                      \o [i \in 1..Len(diff.hunks) |-> TextDiffHunk_iter(diff.hunks[i])])


\* -------------------------------------------------------------- diff.rs
Diff_len(diff) ==
    IF diff.kind = "GitPreambleOnly" THEN GitPreamble_len(diff.git)
    ELSE TextDiff_len(diff.diff)

Diff_iter(diff) ==
    IF diff.kind = "GitPreambleOnly"
    THEN MultiListIter(<<GitPreamble_iter(diff.git)>>)
    ELSE TextDiff_iter(diff.diff)

\* one arm of DiffParser::get_diff_at: an Err is passed on by '?', a diff is
\* wrapped in its variant, and otherwise the next parser is tried
diff_or_else(kind, found, otherwise) ==
    IF found.tag = "err" THEN found
    ELSE IF found.tag = "some"
    THEN [tag |-> "some", diff |-> [kind |-> kind, diff |-> found.diff]]
    ELSE otherwise

\* DiffParser::get_diff_at: the unified parser, then the context parser
get_diff_at(ls, start_index) ==
    diff_or_else("Unified", TextDiff_get_diff_at("Unified", ls, start_index),
        diff_or_else("Context", TextDiff_get_diff_at("Context", ls, start_index),
            NoneVal))

\* DiffPlus::len: without a preamble the method calls itself, and so on until
\* the stack is exhausted
DiffPlus_len(diff_plus) ==
    IF diff_plus.preamble.tag = "some"
    THEN SomeVal(Preamble_len(diff_plus.preamble.preamble) + Diff_len(diff_plus.diff))
    ELSE [tag |-> "overflow"]

\* a DiffPlus::iter that forgets to prepend the preamble's iterator
DiffPlus_iterNoPreamble(diff_plus) == Diff_iter(diff_plus.diff)

\* DiffPlus::iter: the preamble, if there is one, then the diff
DiffPlus_iter(diff_plus) ==
    IF diff_plus.preamble.tag = "some"
    THEN Preamble_iter(diff_plus.preamble.preamble) \o Diff_iter(diff_plus.diff)
    ELSE Diff_iter(diff_plus.diff)

\* the DiffPlus that get_diff_plus_at makes of a preamble and of what the
\* diff parser found after it
diff_plus_of(preamble, diff) ==
    IF diff.tag = "err" THEN diff
    ELSE IF diff.tag = "some"
    THEN [tag |-> "some", diff_plus |-> [preamble |-> preamble, diff |-> diff.diff]]
    ELSE IF preamble.tag = "some" /\ preamble.preamble.kind = "Git"
    THEN [tag |-> "some",
          diff_plus |-> [preamble |-> NoneVal,
                         diff |-> [kind |-> "GitPreambleOnly",
                                   git |-> preamble.preamble.git]]]
    ELSE NoneVal

\* the diff is looked for after the preamble, if there is one
diff_plus_after(ls, start_index, preamble) ==
    diff_plus_of(preamble,
        get_diff_at(ls, IF preamble.tag = "some"
                        THEN start_index + Preamble_len(preamble.preamble)
                        ELSE start_index))

get_diff_plus_at(ls, start_index) ==
    diff_plus_after(ls, start_index, get_preamble_at(ls, start_index))

\* ------------------------------------------------------------- patch.rs
\* PatchHeader::new keeps the lines it is given
PatchHeader_new(ls) == [lines |-> ls]
PatchHeader_iter(header) == header.lines

\* what parse_lines returns after its loop, lines 140-151
patch_of(ls, diffs_start_at, rubbish_starts_at, diff_pluses, rubbish) ==
    IF diffs_start_at.tag = "some"
    THEN [tag |-> "patch",
          patch |-> [length |-> Len(ls),
                     header |-> PatchHeader_new(Slice(ls, 0, diffs_start_at.index)),
                     diff_pluses |-> diff_pluses,
                     rubbish |-> Append(rubbish,
                                        Slice(ls, rubbish_starts_at, Len(ls)))]]
    ELSE [tag |-> "none", patch |-> <<>>]

\* the loop of parse_lines, lines 126-139: found is what get_diff_plus_at
\* returns at index, and length the len() of the diff-plus it found
RECURSIVE parse_from(_, _, _, _, _, _)
RECURSIVE parse_found(_, _, _, _, _, _, _)
RECURSIVE parse_push(_, _, _, _, _, _, _, _)
parse_push(ls, index, diffs_start_at, rubbish_starts_at, diff_pluses, rubbish, diff_plus, length) ==
    IF length.tag = "overflow" THEN [tag |-> "overflow", patch |-> <<>>]
    ELSE parse_from(ls, index + length.index,
             IF diffs_start_at.tag = "some" THEN diffs_start_at
             ELSE SomeVal(index),
             index + length.index,
             Append(diff_pluses, diff_plus),
             IF diffs_start_at.tag = "some"
             THEN Append(rubbish, Slice(ls, rubbish_starts_at, index))
             ELSE rubbish)

parse_found(ls, index, diffs_start_at, rubbish_starts_at, diff_pluses, rubbish, found) ==
    IF found.tag = "err" THEN [tag |-> "err", patch |-> <<>>, error |-> found]
    ELSE IF found.tag = "none"
    THEN parse_from(ls, index + 1, diffs_start_at, rubbish_starts_at,
                    diff_pluses, rubbish)
    ELSE parse_push(ls, index, diffs_start_at, rubbish_starts_at, diff_pluses,
                    rubbish, found.diff_plus, DiffPlus_len(found.diff_plus))

parse_from(ls, index, diffs_start_at, rubbish_starts_at, diff_pluses, rubbish) ==
    IF index < Len(ls)
    THEN parse_found(ls, index, diffs_start_at, rubbish_starts_at, diff_pluses,
                     rubbish, get_diff_plus_at(ls, index))
    ELSE patch_of(ls, diffs_start_at, rubbish_starts_at, diff_pluses, rubbish)

parse_lines(ls) == parse_from(ls, 0, NoneVal, 0, <<>>, <<>>)

Patch_len(p) == p.length

\* Patch::iter: the header, then each diff-plus with the rubbish zipped to it
Patch_iter(p) ==
    MultiListIter(<<PatchHeader_iter(p.header)>>
        \o [i \in 1..(2 * Min(Len(p.diff_pluses), Len(p.rubbish))) |->
               IF i % 2 = 1 THEN DiffPlus_iter(p.diff_pluses[(i + 1) \div 2])
               ELSE p.rubbish[i \div 2]])


\* -------------------------------------- the patch decomposer's actions
InitPatch ==
    /\ lines = <<>>
    /\ hunks = <<>>
    /\ reverse = FALSE
    /\ abstract_hunks = <<>>
    /\ pc = "idle"
    /\ hunk_index = 0
    /\ lines_index = 0
    /\ current_offset = 0
    /\ result = ApplnResult_default
    /\ err_w = <<>>
    /\ run = 1
    /\ first = [lines |-> <<>>, result |-> ApplnResult_default]
    /\ wrapped = FALSE
    /\ input \in Inputs
    /\ ppc = "parse"
    /\ patch = <<>>
    /\ yielded = <<>>
    /\ error = <<>>
    /\ call = <<>>
    /\ ret = <<>>

\* PatchParser::parse_lines: a Patch, Ok(None), an Err, or no return at all
ParseLines ==
    /\ ppc = "parse"
    /\ LET parsed == parse_lines(input)
       IN  /\ ppc' = parsed.tag
           /\ patch' = parsed.patch
           /\ error' = IF parsed.tag = "err" THEN parsed.error ELSE <<>>
    /\ UNCHANGED <<input, yielded>>
    /\ UNCHANGED <<evars, fvars>>

\* patch.iter() run to its end, as tests::patch_parse_lines_works does
PatchIter ==
    /\ ppc = "patch"
    /\ yielded' = Patch_iter(patch)
    /\ ppc' = "iterated"
    /\ UNCHANGED <<input, patch, error>>
    /\ UNCHANGED <<evars, fvars>>

NextPatch ==
    \/ ParseLines
    \/ PatchIter

SpecPatch == InitPatch /\ [][NextPatch]_vars

\* ------------------------------------------------------------- the claims
\* The hunk the loop is at, its two sides as the direction assigns them, and
\* the index the hunk's start_index names in the source
Hunk == abstract_hunks[hunk_index + 1]
SourceSide == Hunk.chunk[IF reverse THEN POST ELSE ANTE]
TargetSide == Hunk.chunk[IF reverse THEN ANTE ELSE POST]
PlaceAt == SourceSide.start_index + current_offset

\* sub occurs in ls at the zero-based index at
Occurs(sub, ls, at) ==
    /\ at >= 0
    /\ at + Len(sub) <= Len(ls)
    /\ \A k \in 1..Len(sub) : ls[at + k] = sub[k]

\* the three counters other than the named one keep their values in a step
OtherCountersKept(name) ==
    \A c \in {"successes", "merges", "already_applied", "failures"} \ {name} :
        result'[c] = result[c]

ConflictDiagnostics ==
    {err_w[i] : i \in {j \in 1..Len(err_w) : err_w[j].kind = "conflict"}}

\* C8 as the specification states it.  In 'Hunk #N NOT MERGED at L1-L2.', L1
\* is the one-based output line of the first line after the '<<<<<<<' marker
\* and L2 that of the last line before the '>>>>>>>' marker.
C8_RangeExcludesMarkers ==
    \A d \in ConflictDiagnostics :
        /\ d.start_line - 1 \in 1..Len(result.lines)
        /\ result.lines[d.start_line - 1] = "<<<<<<<"
        /\ d.end_line + 1 \in 1..Len(result.lines)
        /\ result.lines[d.end_line + 1] = ">>>>>>>"

\* C8 as the code has it.  L1 is the one-based output line of the '<<<<<<<'
\* marker itself and L2 that of the '>>>>>>>' marker: the range takes in both
\* markers.
C8_RangeIncludesMarkers ==
    \A d \in ConflictDiagnostics :
        /\ d.start_line \in 1..Len(result.lines)
        /\ result.lines[d.start_line] = "<<<<<<<"
        /\ d.end_line \in 1..Len(result.lines)
        /\ result.lines[d.end_line] = ">>>>>>>"
        /\ \A i \in (d.start_line + 1)..(d.end_line - 1) :
               result.lines[i] \notin {"<<<<<<<", ">>>>>>>"}

\* C8 witness: a conflict has been reported whose markers enclose lines
C8_Witness ==
    \E d \in ConflictDiagnostics : d.end_line - d.start_line > 2

\* the last diagnostic a step writes is of kind k and names the current hunk
Writes(k) ==
    /\ Len(err_w') = Len(err_w) + 1
    /\ SubSeq(err_w', 1, Len(err_w)) = err_w
    /\ err_w'[Len(err_w')].kind = k
    /\ err_w'[Len(err_w')].hunk = hunk_index + 1

\* C2.  Fuzzed placement writes the change: a hunk placed by strategy (b) at
\* the index found with reductions a and p appends, after the verbatim copy,
\* the target-side lines less a leading and p trailing lines, and merges
\* grows by 1.
C2_FuzzedWritesTarget ==
    [][FuzzedPlacement
         => LET cpd == get_compromised_posn(Hunk, lines, lines_index,
                                            FUZZ_FACTOR, reverse, FALSE)
            IN  /\ result'.lines =
                       result.lines
                           \o Slice(lines, lines_index, cpd.start_index)
                           \o Slice(TargetSide.lines, cpd.ante_context_redn,
                                    Len(TargetSide.lines) - cpd.post_context_redn)
                /\ result'.merges = result.merges + 1]_vars

\* C3.  Idempotent re-application: after a forward application that placed
\* every hunk exactly, applying the diff forward to its output returns the
\* lines it was given, with already_applied equal to the first successes and
\* no success, merge or failure.
C3_Idempotent ==
    (run = 2 /\ ~reverse /\ pc = "done")
        => /\ result.lines = lines
           /\ result.already_applied = first.result.successes
           /\ result.successes = 0
           /\ result.merges = 0
           /\ result.failures = 0

\* C4.  Forward/reverse involution: after a forward application that counted
\* every hunk a success, applying the diff in reverse to its output returns
\* the original source lines.
C4_Involution ==
    (run = 2 /\ reverse /\ pc = "done") => result.lines = first.lines

\* Strategy (b) can place the hunk: for some reduction within the fuzz
\* factor the trimmed source-side lines occur at or after lines_index
FuzzPlaceable ==
    \E r \in 0..Min(FUZZ_FACTOR, Max(Hunk.ante_context_len, Hunk.post_context_len)) :
        LET a == Min(r, Hunk.ante_context_len)
            p == Min(r, Hunk.post_context_len)
        IN  /\ SliceOk(SourceSide.lines, a, Len(SourceSide.lines) - p)
            /\ \E i \in lines_index..Len(lines) :
                   Occurs(Slice(SourceSide.lines, a, Len(SourceSide.lines) - p),
                          lines, i)

\* C5.  Already-applied step: when exact and fuzzed placement both fail and
\* the target-side lines occur in the source at source-side start_index +
\* current_offset, the pass copies the source from lines_index through the
\* end of that region, so lines_index becomes source-side start_index +
\* current_offset + len(target-side lines), never beyond the source;
\* current_offset grows by len(target-side) - len(source-side);
\* already_applied grows by 1; and an 'already applied' diagnostic is written.
C5_AlreadyApplied ==
    [][(/\ InLoop
        /\ ~Occurs(SourceSide.lines, lines, PlaceAt)
        /\ ~FuzzPlaceable
        /\ Occurs(TargetSide.lines, lines, PlaceAt))
         => /\ lines_index' = PlaceAt + Len(TargetSide.lines)
            /\ lines_index' <= Len(lines)
            /\ result'.lines = result.lines
                                   \o Slice(lines, lines_index, lines_index')
            /\ current_offset' = current_offset + Len(TargetSide.lines)
                                                - Len(SourceSide.lines)
            /\ result'.already_applied = result.already_applied + 1
            /\ OtherCountersKept("already_applied")
            /\ Writes("already")]_vars

\* C6.  End-of-input failure: when strategies (a)-(c) cannot place the hunk
\* and source-side start_index + len(source-side lines) - post_context_len +
\* current_offset exceeds len(source), the pass ends the loop: failures grows
\* by the number of hunks not yet processed, this one included, one
\* 'Unexpected end of file' diagnostic names the hunk or the range of hunks,
\* no further hunk is read and the output so far is kept for the copy of the
\* remaining source lines.
C6_EndOfInput ==
    [][(/\ InLoop
        /\ ~Occurs(SourceSide.lines, lines, PlaceAt)
        /\ ~FuzzPlaceable
        /\ ~Occurs(TargetSide.lines, lines, PlaceAt)
        /\ PlaceAt + Len(SourceSide.lines) - Hunk.post_context_len > Len(lines))
         => /\ pc' = "rest"
            /\ hunk_index' = hunk_index
            /\ result'.failures = result.failures + Len(abstract_hunks) - hunk_index
            /\ OtherCountersKept("failures")
            /\ result'.lines = result.lines
            /\ lines_index' = lines_index
            /\ Writes("eof")
            /\ err_w'[Len(err_w')].last_hunk = Len(abstract_hunks)]_vars

\* C9.  Engine totality: whatever the source, the direction and the lowered
\* hunks, apply_to_lines returns a result; a panic happens, if at all, while
\* the hunks are lowered, before the engine is entered.
C9_Totality == pc = "panic" => abstract_hunks = <<>>

\* C10.  Patch exactness: whenever parse_lines returns a Patch, patch.len()
\* is the number of input lines and patch.iter() yields the input lines in
\* order: the header, then each diff-plus followed by its rubbish, no line
\* lost, repeated or moved.
C10_PatchExactness ==
    /\ ppc \in {"patch", "iterated"} => Patch_len(patch) = Len(input)
    /\ ppc = "iterated" => yielded = input

\* C10 witness: a patch with header lines, one diff-plus made of a git
\* preamble and a unified diff, and rubbish after it, iterated to its end
C10_Witness ==
    /\ ppc = "iterated"
    /\ patch.header.lines # <<>>
    /\ Len(patch.diff_pluses) = 1
    /\ patch.diff_pluses[1].preamble.tag = "some"
    /\ patch.diff_pluses[1].diff.kind = "Unified"
    /\ patch.rubbish[1] # <<>>
    /\ Len(yielded) = Len(input)

\* The length of the longest common prefix, and suffix, of two sequences
CommonPrefixLen(s, t) ==
    LET same == {k \in 0..Min(Len(s), Len(t)) : \A i \in 1..k : s[i] = t[i]}
    IN  CHOOSE k \in same : \A j \in same : j <= k
CommonSuffixLen(s, t) ==
    LET same == {k \in 0..Min(Len(s), Len(t)) :
                    \A i \in 0..(k - 1) : s[Len(s) - i] = t[Len(t) - i]}
    IN  CHOOSE k \in same : \A j \in same : j <= k

\* C11.  Context-length invariant: in every AbstractHunk built from ante and
\* post lines that differ, ante_context_len + post_context_len is at most
\* the length of the shorter side, ante_context_len is the length of the
\* longest common prefix and post_context_len that of the longest common
\* suffix.
C11_ContextLengths ==
    \A i \in 1..Len(abstract_hunks) :
        LET h == abstract_hunks[i]
            al == h.chunk[ANTE].lines
            pl == h.chunk[POST].lines
        IN  /\ h.ante_context_len + h.post_context_len <= Min(Len(al), Len(pl))
            /\ h.ante_context_len = CommonPrefixLen(al, pl)
            /\ h.post_context_len = CommonSuffixLen(al, pl)

\* ------------------------------------------- functions called on their own
\* The engine and the patch decomposer at rest
AtRest ==
    /\ lines = <<>>
    /\ hunks = <<>>
    /\ reverse = FALSE
    /\ abstract_hunks = <<>>
    /\ pc = "idle"
    /\ hunk_index = 0
    /\ lines_index = 0
    /\ current_offset = 0
    /\ result = ApplnResult_default
    /\ err_w = <<>>
    /\ run = 1
    /\ first = [lines |-> <<>>, result |-> ApplnResult_default]
    /\ wrapped = FALSE
    /\ input = <<>>
    /\ ppc = "idle"
    /\ patch = <<>>
    /\ yielded = <<>>
    /\ error = <<>>

\* lines.find_first_sub_lines(sub_lines, start_index) on every line sequence,
\* sub-sequence and start index within the bounds
FindCalls ==
    {[fn |-> "find_first_sub_lines", self |-> s, sub_lines |-> u, start_index |-> i] :
        s \in Sources, u \in Sources, i \in 0..(MaxLen + 1)}

\* the call runs to its end: ret is what it returned, or the panic; either
\* overflow behaviour is possible
CallFindFirst ==
    /\ call \in FindCalls
    /\ ret = <<>>
    /\ \E oc \in BOOLEAN :
         ret' = find_first_sub_lines(call.self, call.sub_lines, call.start_index, oc)
    /\ UNCHANGED <<evars, pvars, call>>

InitFind == AtRest /\ call \in FindCalls /\ ret = <<>>
NextFind == CallFindFirst
SpecFind == InitFind /\ [][NextFind]_vars

\* C12.  find_first semantics: find_first_sub_lines(sub, start) returns the
\* least index i >= start at which sub occurs in the sequence, and none when
\* there is no such index, also when sub is longer than the sequence or than
\* what is left of it from start; no index beyond len(self) - len(sub) is
\* accepted.
C12_FindFirst ==
    (call \in FindCalls /\ ret # <<>>)
        => LET at == {i \in call.start_index..(Len(call.self) - Len(call.sub_lines)) :
                         Occurs(call.sub_lines, call.self, i)}
           IN  IF at = {} THEN ret = NoneVal
               ELSE ret = SomeVal(SetMin(at))

\* C13.  Degenerate hunk rejection: a hunk whose ante lines equal its post
\* lines (a unified hunk of context lines only) is rejected as an error
\* outcome: lowering it does not panic, and no hunk with equal sides is ever
\* among the hunks handed to the engine.
C13_DegenerateRejected ==
    /\ \A i \in 1..Len(abstract_hunks) :
          abstract_hunks[i].chunk[ANTE].lines # abstract_hunks[i].chunk[POST].lines
    /\ (pc = "panic" /\ abstract_hunks = <<>>)
          => \A i \in 1..Len(hunks) : ante_lines(hunks[i]) # post_lines(hunks[i])

\* a line that can stand in the body of a unified hunk
IsBodyLine(line) ==
    starts_with(line, "-") \/ starts_with(line, "+") \/ starts_with(line, " ")
        \/ starts_with(line, "\\")

\* C14.  Parse-error position: a parse error that carries a position carries
\* the one-based number of the offending input line.  For an unexpected hunk
\* termination that is the first line after a hunk header that cannot stand
\* in a hunk body; for a missing post-file header it is the line after the
\* ante-file header (the header's own number is accepted as well).
C14_ErrorPosition ==
    (ppc = "err" /\ "position" \in DOMAIN error)
        => LET n == error.position
           IN  /\ n \in 1..Len(input)
               /\ error.error = "UnexpectedEndHunk"
                    => /\ ~IsBodyLine(input[n])
                       /\ \E h \in 1..(n - 1) :
                            /\ input[h] = HunkLine
                            /\ \A k \in (h + 1)..(n - 1) : IsBodyLine(input[k])
               /\ error.error = "MissingAfterFileData"
                    => \E k \in {n - 1, n} :
                         /\ k \in 1..(Len(input) - 1)
                         /\ input[k] = AnteLine
                         /\ input[k + 1] # PostLine

\* C15.  DiffPlus length: for every DiffPlus that get_diff_plus_at returns to
\* parse_lines, with or without a preamble or made of a git preamble alone,
\* len() returns, and what it returns is the number of lines iter() yields.
C15_DiffPlusLength ==
    /\ ppc # "overflow"
    /\ ppc \in {"patch", "iterated"}
         => \A i \in 1..Len(patch.diff_pluses) :
              LET length == DiffPlus_len(patch.diff_pluses[i])
              IN  /\ length.tag = "some"
                  /\ length.index = Len(DiffPlus_iter(patch.diff_pluses[i]))

\* ======================================================= git_base85.rs
\* A byte (u8) is a number in 0..255 and a character of the encoded text is
\* its byte.  The accumulators are u64 values beyond the range of the
\* checker's integers, so a u64 is kept as its eight bytes, byte 0 the least
\* significant.
MaxBytes == 5    \* longest byte sequence encoded, and largest declared size
MaxChars == 5    \* longest encoded text decoded on its own

ByteSamples == {0, 1, 255}              \* the byte values encoded
CharSamples == {32, 48, 124, 126}       \* ' ' (not in the alphabet), '0', '|', '~'

\* b"0123456789ABCDEFGHIJKLMNOPQRSTUVWXYZabcdefghijklmnopqrstuvwxyz!#$%&()*+-;<=>?@^_`{|}~"
ENCODE ==
    [i \in 1..10 |-> 47 + i] \o [i \in 1..26 |-> 64 + i] \o [i \in 1..26 |-> 96 + i]
        \o <<33, 35, 36, 37, 38, 40, 41, 42, 43, 45, 59, 60, 61, 62, 63, 64,
             94, 95, 96, 123, 124, 125, 126>>

U64_zero == [i \in 0..7 |-> 0]
\* b as u64
U64_from(b) == [i \in 0..7 |-> IF i = 0 THEN b ELSE 0]
\* x << 8 * n: the bytes shifted out at the top are lost
U64_shl(x, n) == [i \in 0..7 |-> IF i >= n THEN x[i - n] ELSE 0]
\* x >> 8 * n
U64_shr(x, n) == [i \in 0..7 |-> IF i + n <= 7 THEN x[i + n] ELSE 0]

\* a | b on the low n bits
RECURSIVE BitOr(_, _, _)
BitOr(a, b, n) ==
    IF n = 0 THEN 0
    ELSE (IF a % 2 = 1 \/ b % 2 = 1 THEN 1 ELSE 0)
             + 2 * BitOr(a \div 2, b \div 2, n - 1)

U64_or(x, y) == [i \in 0..7 |-> BitOr(x[i], y[i], 8)]

\* the remainder left of bytes 7 down to i of x in a long division by 85
RECURSIVE U64_rem85_from(_, _)
U64_rem85_from(x, i) ==
    IF i > 7 THEN 0 ELSE (U64_rem85_from(x, i + 1) * 256 + x[i]) % 85

\* x % 85 and x / 85
U64_rem85(x) == U64_rem85_from(x, 0)
U64_div85(x) ==
    [i \in 0..7 |-> (U64_rem85_from(x, i + 1) * 256 + x[i]) \div 85]

\* the carry into byte i of x * 85 + d
RECURSIVE U64_carry85(_, _, _)
U64_carry85(x, d, i) ==
    IF i = 0 THEN d ELSE (x[i - 1] * 85 + U64_carry85(x, d, i - 1)) \div 256

\* x * 85 + d; an accumulator of at most five digits stays below 2^64
U64_muladd85(x, d) ==
    [i \in 0..7 |-> (x[i] * 85 + U64_carry85(x, d, i)) % 256]

\* acc > MAX_VAL, MAX_VAL = 0xFFFFFFFF
GtMAX_VAL(acc) == \E i \in 4..7 : acc[i] # 0

\* GitBase85::new: decode_map, the index in ENCODE of a character
decode_map(ch) ==
    IF \E i \in 1..85 : ENCODE[i] = ch
    THEN SomeVal((CHOOSE i \in 1..85 : ENCODE[i] = ch) - 1)
    ELSE NoneVal

\* encode, lines 47-53: the accumulator of the group of up to four bytes that
\* starts at index, and the index after it; cnt is 3, 2, 1, 0 bytes
RECURSIVE encode_acc(_, _, _, _)
encode_acc(data, index, cnt, acc) ==
    IF cnt < 0 \/ index + 1 = Len(data)
    THEN [acc |-> IF cnt < 0 THEN acc
                  ELSE U64_or(acc, U64_shl(U64_from(data[index + 1]), cnt)),
          index |-> IF cnt < 0 THEN index ELSE index + 1]
    ELSE encode_acc(data, index + 1, cnt - 1,
                    U64_or(acc, U64_shl(U64_from(data[index + 1]), cnt)))

\* a snippet whose digits are pushed after those already there
RECURSIVE encode_snippetPushed(_, _, _)
encode_snippetPushed(acc, n, snippet) ==
    IF n = 0 THEN snippet
    ELSE encode_snippetPushed(U64_div85(acc), n - 1,
                              snippet \o <<ENCODE[U64_rem85(acc) + 1]>>)

\* encode, lines 54-59: each digit is inserted before those already there
RECURSIVE encode_snippet(_, _, _)
encode_snippet(acc, n, snippet) ==
    IF n = 0 THEN snippet
    ELSE encode_snippet(U64_div85(acc), n - 1,
                        <<ENCODE[U64_rem85(acc) + 1]>> \o snippet)

RECURSIVE encode_from(_, _, _)
encode_group(data, group, string) ==
    encode_from(data, group.index, string \o encode_snippet(group.acc, 5, <<>>))

encode_from(data, index, string) ==
    IF index < Len(data)
    THEN encode_group(data, encode_acc(data, index, 3, U64_zero), string)
    ELSE [string |-> string, size |-> Len(data)]

\* GitBase85::encode
GitBase85_encode(data) == encode_from(data, 0, <<>>)

\* decode, lines 75-94: up to five characters are accumulated; the loop
\* stops early at the end of the text, so get(s_index) is never None
RECURSIVE decode_acc(_, _, _, _)
decode_digit(string, s_index, n, acc, d) ==
    IF d.tag = "none" THEN ErrVal("Base85Error")
    ELSE decode_acc(string, s_index + 1, n - 1, U64_muladd85(acc, d.index))

decode_acc(string, s_index, n, acc) ==
    IF n = 0 \/ s_index = Len(string)
    THEN [tag |-> "ok", acc |-> acc, s_index |-> s_index]
    ELSE decode_digit(string, s_index, n, acc, decode_map(string[s_index + 1]))

\* decode, lines 101-108: up to four bytes are taken from the accumulator
RECURSIVE decode_bytes(_, _, _, _, _)
decode_bytes(acc, d_index, size, n, data) ==
    IF n = 0 \/ d_index = size THEN [d_index |-> d_index, data |-> data]
    ELSE decode_bytes(U64_or(U64_shl(acc, 1), U64_shr(acc, 3)), d_index + 1,
                      size, n - 1,
                      Append(data, U64_or(U64_shl(acc, 1), U64_shr(acc, 3))[0]))

RECURSIVE decode_from(_, _, _, _, _)
decode_emit(string, size, s_index, emitted) ==
    decode_from(string, size, emitted.d_index, s_index, emitted.data)

decode_group(string, size, d_index, data, group) ==
    IF group.tag = "err" THEN group
    ELSE IF GtMAX_VAL(group.acc) THEN ErrVal("Base85Error")
    ELSE decode_emit(string, size, group.s_index,
                     decode_bytes(group.acc, d_index, size, 4, data))

decode_from(string, size, d_index, s_index, data) ==
    IF d_index < size
    THEN decode_group(string, size, d_index, data,
                      decode_acc(string, s_index, 5, U64_zero))
    ELSE [tag |-> "ok", data |-> data]

\* GitBase85::decode
GitBase85_decode(encoding) ==
    decode_from(encoding.string, encoding.size, 0, 0, <<>>)

\* GitBase85::decode_size
GitBase85_decode_size(ch) ==
    IF 65 <= ch /\ ch <= 90 THEN SomeVal(ch - 65)
    ELSE IF 97 <= ch /\ ch <= 122 THEN SomeVal(ch - 97 + 27)
    ELSE ErrVal("UnexpectedInput")

\* ---------------------------------------------------- the codec's calls
ByteSeqs == UNION {[1..n -> ByteSamples] : n \in 0..MaxBytes}
EncodeCalls == {[fn |-> "encode_decode", data |-> d] : d \in ByteSeqs}
DecodeCalls ==
    {[fn |-> "decode", encoding |-> [string |-> s, size |-> n]] :
        s \in UNION {[1..k -> CharSamples] : k \in 0..MaxChars}, n \in 0..MaxBytes}
DecodeSizeCalls == {[fn |-> "decode_size", ch |-> c] : c \in 0..255}

\* tests::git_base85_encode_decode_work: encode, then decode what it returned
CallEncodeDecode ==
    /\ call \in EncodeCalls
    /\ ret = <<>>
    /\ ret' = [encoding |-> GitBase85_encode(call.data),
               decoding |-> GitBase85_decode(GitBase85_encode(call.data))]
    /\ UNCHANGED <<evars, pvars, call>>

CallDecode ==
    /\ call \in DecodeCalls
    /\ ret = <<>>
    /\ ret' = GitBase85_decode(call.encoding)
    /\ UNCHANGED <<evars, pvars, call>>

CallDecodeSize ==
    /\ call \in DecodeSizeCalls
    /\ ret = <<>>
    /\ ret' = GitBase85_decode_size(call.ch)
    /\ UNCHANGED <<evars, pvars, call>>

InitCodec ==
    /\ AtRest
    /\ call \in EncodeCalls \cup DecodeCalls \cup DecodeSizeCalls
    /\ ret = <<>>

NextCodec ==
    \/ CallEncodeDecode
    \/ CallDecode
    \/ CallDecodeSize

SpecCodec == InitCodec /\ [][NextCodec]_vars

\* C16.  Base-85 round trip: for every byte sequence, whatever its length,
\* decode(encode(bytes)) is Ok with the bytes given, and encode writes five
\* characters for every started group of four bytes.
C16_RoundTrip ==
    (call \in EncodeCalls /\ ret # <<>>)
        => /\ ret.decoding = [tag |-> "ok", data |-> call.data]
           /\ Len(ret.encoding.string) = 5 * ((Len(call.data) + 3) \div 4)
           /\ ret.encoding.size = Len(call.data)

\* C16 witness: a sequence that ends in a started group, with a high byte
\* and a zero byte in it, has been encoded and decoded
C16_Witness ==
    /\ call \in EncodeCalls
    /\ Len(call.data) % 4 # 0
    /\ Len(call.data) > 4
    /\ \E i \in 1..Len(call.data) : call.data[i] = 255
    /\ \E i \in 1..Len(call.data) : call.data[i] = 0
    /\ ret # <<>>
    /\ ret.decoding.tag = "ok"
    /\ Len(ret.encoding.string) = 10

\* C17.  Base-85 line length byte: decode_size maps 'A'..'Z' to 0..25 and
\* 'a'..'z' to 26..51, 'a' next after 'Z', and returns an error for every
\* other byte.
C17_DecodeSize ==
    (call \in DecodeSizeCalls /\ ret # <<>>)
        => IF call.ch \in 65..90 THEN ret = SomeVal(call.ch - 65)
           ELSE IF call.ch \in 97..122 THEN ret = SomeVal(26 + call.ch - 97)
           ELSE ret.tag = "err"

\* The digits of MAX_VAL = 0xFFFFFFFF in base 85 ("|NsC0"), and the order of
\* five-digit groups by value
MaxDigits == <<82, 23, 54, 12, 0>>
GroupAbove(digits, bound) ==
    \E i \in 1..5 :
        /\ digits[i] > bound[i]
        /\ \A j \in 1..(i - 1) : digits[j] = bound[j]

\* The characters decode needs for size bytes, five for every started group
\* of four bytes
CharsNeeded(size) == 5 * ((size + 3) \div 4)

\* C18.  Base-85 decode errors: decode returns a Base85 error, and no bytes,
\* when a character it reads is outside the alphabet, when a group of five
\* characters it reads has a value above 0xFFFFFFFF, or when the text ends
\* before the declared number of bytes has been produced.
C18_DecodeErrors ==
    (call \in DecodeCalls /\ ret # <<>>)
        => LET string == call.encoding.string
               needed == CharsNeeded(call.encoding.size)
               read == Min(needed, Len(string))
               illegal == \E i \in 1..read : decode_map(string[i]).tag = "none"
               above == \E g \in 0..((read \div 5) - 1) :
                           /\ \A k \in 1..5 : decode_map(string[5 * g + k]).tag = "some"
                           /\ GroupAbove([k \in 1..5 |-> decode_map(string[5 * g + k]).index],
                                         MaxDigits)
               exhausted == Len(string) < needed
           IN  (illegal \/ above \/ exhausted)
                   => ret = [tag |-> "err", error |-> "Base85Error"]

\* C19.  The engine never backtracks: in every pass of the hunk loop
\* lines_index does not decrease and does not pass the end of the source,
\* and the verbatim copy a pass makes, from lines_index up to the place of an
\* exact match or up to the end of an already applied region, has
\* lines_index <= target <= len(source).
C19_NeverBacktracks ==
    [][InLoop
         => /\ pc' # "panic"
                => lines_index <= lines_index' /\ lines_index' <= Len(lines)
            /\ Occurs(SourceSide.lines, lines, PlaceAt) => lines_index <= PlaceAt
            /\ (/\ ~Occurs(SourceSide.lines, lines, PlaceAt)
                /\ ~FuzzPlaceable
                /\ Occurs(TargetSide.lines, lines, PlaceAt))
                => /\ lines_index <= end_index(TargetSide) + current_offset
                   /\ end_index(TargetSide) + current_offset <= Len(lines)]_vars

\* C20.  Fuzz selection and tie-break: when the engine calls
\* get_compromised_posn, every reduction r it tries, from 0 up to
\* min(FUZZ_FACTOR, max(ante_context_len, post_context_len)) and until one
\* matches, has a = min(r, ante_context_len) <= len - p with
\* p = min(r, post_context_len); the call returns the smallest r whose
\* trimmed source-side lines occur at or after lines_index with the least
\* such index, and none only if no r matches.
C20_FuzzSelection ==
    (InLoop /\ ~Occurs(SourceSide.lines, lines, PlaceAt))
        => LET len == Len(SourceSide.lines)
               a(r) == Min(r, Hunk.ante_context_len)
               p(r) == Min(r, Hunk.post_context_len)
               at(r) == {i \in lines_index..Len(lines) :
                            Occurs(Slice(SourceSide.lines, a(r), len - p(r)), lines, i)}
               hit(r) == SliceOk(SourceSide.lines, a(r), len - p(r)) /\ at(r) # {}
               R == 0..Min(FUZZ_FACTOR,
                           Max(Hunk.ante_context_len, Hunk.post_context_len))
               tried == {r \in R : \A q \in 0..(r - 1) : ~hit(q)}
               hits == {r \in tried : hit(r)}
           IN  \A oc \in Checks :
                   LET cpd == get_compromised_posn(Hunk, lines, lines_index,
                                                   FUZZ_FACTOR, reverse, oc)
                   IN  /\ \A r \in tried : a(r) <= len - p(r)
                       /\ IF hits = {} THEN cpd = NoneVal
                          ELSE LET r == SetMin(hits)
                               IN  cpd = [tag |-> "some",
                                          start_index |-> SetMin(at(r)),
                                          ante_context_redn |-> a(r),
                                          post_context_redn |-> p(r)]

\* C21.  Merge state update: a pass that places the hunk by strategy (b) at
\* the index found with reductions a and p sets lines_index to found +
\* len(source-side lines) - a - p and current_offset to found - source-side
\* start_index - a, adds exactly 1 to merges and leaves the other three
\* counters alone; and when the source-side lines of the hunk after it occur
\* at its start_index plus the new current_offset, the exact-placement test
\* of the next pass finds them there.
C21_MergeUpdate ==
    [][FuzzedPlacement
         => LET cpd == get_compromised_posn(Hunk, lines, lines_index,
                                            FUZZ_FACTOR, reverse, FALSE)
                found == cpd.start_index
                a == cpd.ante_context_redn
                p == cpd.post_context_redn
            IN  /\ lines_index' = found + Len(SourceSide.lines) - a - p
                /\ current_offset' = found - SourceSide.start_index - a
                /\ result'.merges = result.merges + 1
                /\ OtherCountersKept("merges")
                /\ hunk_index' = hunk_index + 1
                /\ (InLoop' /\ Occurs(SourceSide'.lines, lines', PlaceAt'))
                     => matches_lines(SourceSide', lines', current_offset', TRUE) = "T"]_vars

\* C21 witness: the first hunk has been merged one line below its place, and
\* the source-side lines of the second hunk occur at its displaced place
C21_Witness ==
    /\ run = 1 /\ hunk_index = 1 /\ InLoop
    /\ result.merges = 1 /\ current_offset = 1
    /\ result.successes + result.already_applied + result.failures = 0
    /\ lines_index = abstract_hunks[1].chunk[ANTE].start_index + 1
                         + Len(abstract_hunks[1].chunk[ANTE].lines)
    /\ Occurs(SourceSide.lines, lines, PlaceAt)

\* The hunks the result accounts for: the four counters and the hunks that
\* took the conflict path
Accounted ==
    result.successes + result.merges + result.already_applied + result.failures
        + Cardinality({j \in 1..Len(err_w) : err_w[j].kind = "conflict"})

\* C22.  Counter accounting: while apply_to_lines is in its loop the four
\* counters plus the number of conflicts equal the number of hunks passed,
\* and once the loop is left they equal the number of hunks of the diff; a
\* pass changes at most one counter, by 1 for strategies (a) to (c) and by
\* the number of hunks not yet passed at the end of input.
C22_CounterAccounting ==
    /\ [](/\ pc = "apply" => Accounted = hunk_index
          /\ pc \in {"rest", "done"} => Accounted = Len(abstract_hunks))
    /\ [][InLoop
            => LET Added(c) == result'[c] - result[c]
                   changed == {c \in {"successes", "merges", "already_applied",
                                      "failures"} : Added(c) # 0}
               IN  /\ Cardinality(changed) <= 1
                   /\ (hunk_index' = hunk_index + 1 /\ err_w' = err_w)
                        => changed = {"successes"} /\ Added("successes") = 1
                   /\ Writes("merged")
                        => changed = {"merges"} /\ Added("merges") = 1
                   /\ Writes("already")
                        => changed = {"already_applied"}
                             /\ Added("already_applied") = 1
                   /\ Writes("eof")
                        => changed = {"failures"}
                             /\ Added("failures") = Len(abstract_hunks) - hunk_index
                   /\ Writes("conflict") => changed = {}]_vars

\* C22 witness: the source ended at the first of two hunks, both are counted
\* as failures and the result has been returned
C22_Witness ==
    /\ pc = "done" /\ run = 1
    /\ Len(abstract_hunks) = 2 /\ hunk_index = 0
    /\ result.failures = 2
    /\ result.successes + result.merges + result.already_applied = 0

\* ------------------------------- first_inequality_fm_head, _fm_tail on their own
\* either function on every pair of line sequences within the bounds
InequalityCalls ==
    {[fn |-> f, lines1 |-> s, lines2 |-> t] :
        f \in {"first_inequality_fm_head", "first_inequality_fm_tail"},
        s \in Sources, t \in Sources}

CallFirstInequality ==
    /\ call \in InequalityCalls
    /\ ret = <<>>
    /\ ret' = IF call.fn = "first_inequality_fm_head"
              THEN first_inequality_fm_head(call.lines1, call.lines2)
              ELSE first_inequality_fm_tail(call.lines1, call.lines2)
    /\ UNCHANGED <<evars, pvars, call>>

\* a sequence read from its end
Reversed(s) == [i \in 1..Len(s) |-> s[Len(s) + 1 - i]]

\* C23.  first_inequality_fm_tail is the mirror image of
\* first_inequality_fm_head: it returns the smallest k at which the k-th
\* lines counted from the ends differ, the length of the shorter sequence
\* when that is a proper suffix of the longer one, and none when the two are
\* equal; so what it returns is the number of trailing lines the two have in
\* common and never exceeds the length of the shorter one.
C23_TailMirrorsHead ==
    (call \in InequalityCalls /\ call.fn = "first_inequality_fm_tail" /\ ret # <<>>)
        => /\ ret = first_inequality_fm_head(Reversed(call.lines1),
                                             Reversed(call.lines2))
           /\ IF call.lines1 = call.lines2 THEN ret = NoneVal
              ELSE /\ ret = SomeVal(CommonSuffixLen(call.lines1, call.lines2))
                   /\ ret.index <= Min(Len(call.lines1), Len(call.lines2))

\* ------------------------------------------- reverse mode against the swapped diff
\* The hunk with its two chunks exchanged, built as AbstractHunk::new builds it
Exchanged(hunk) == AbstractHunk_new(hunk.chunk[POST], hunk.chunk[ANTE]).hunk

\* apply_to_lines(source, diff, reverse = true) on every source and diff
InitSwap ==
    /\ lines \in Sources
    /\ hunks \in Diffs
    /\ reverse = TRUE
    /\ abstract_hunks = <<>>
    /\ pc = "lower"
    /\ hunk_index = 0
    /\ lines_index = 0
    /\ current_offset = 0
    /\ result = ApplnResult_default
    /\ err_w = <<>>
    /\ run = 1
    /\ first = [lines |-> <<>>, result |-> ApplnResult_default]
    /\ wrapped = FALSE
    /\ input = <<>>
    /\ ppc = "idle"
    /\ patch = <<>>
    /\ yielded = <<>>
    /\ error = <<>>
    /\ call = <<>>
    /\ ret = <<>>

\* From any pass of the reverse application on, the same loop state is
\* carried on by the forward application of the diff with the chunks of every
\* hunk exchanged; first keeps what the pass of the reverse application
\* leaves, under either overflow behaviour
Swap ==
    /\ InLoop
    /\ run = 1
    /\ reverse
    /\ abstract_hunks' = [i \in 1..Len(abstract_hunks) |-> Exchanged(abstract_hunks[i])]
    /\ reverse' = FALSE
    /\ run' = 2
    /\ first' = [lines |-> lines, result |-> result, hunk_index |-> hunk_index,
                  passes |-> [oc \in BOOLEAN |-> Step(oc)]]
    /\ UNCHANGED <<lines, hunks, pc, hunk_index, lines_index, current_offset,
                   result, err_w, wrapped>>
    /\ UNCHANGED <<pvars, fvars>>

NextSwap ==
    \/ Lower
    \/ ExactPlacement
    \/ FuzzedPlacement
    \/ AlreadyApplied
    \/ EndOfInput
    \/ ConflictEmission
    \/ HunkPanic
    \/ CopyRest
    \/ Swap

SpecSwap == InitSwap /\ [][NextSwap]_vars

\* C24.  Reverse mode is a pure role swap: from every loop state of
\* apply_to_lines(source, diff, reverse = true), the pass for the hunk at
\* hand leaves the same output lines, counters, diagnostics, lines_index and
\* current_offset, or panics alike, as the pass of
\* apply_to_lines(source, diff', reverse = false) from that state, diff'
\* being diff with the ante and post chunks of every hunk exchanged; so the
\* two applications return the same result.
C24_ReverseIsRoleSwap ==
    (run = 2 /\ ~reverse /\ pc = "apply" /\ hunk_index = first.hunk_index)
        => \A oc \in BOOLEAN : Step(oc) = first.passes[oc]

\* C24 witness: the forward application of the exchanged diff has carried on
\* from a reverse application and returned, with a hunk placed and the
\* source changed
C24_Witness ==
    /\ run = 2 /\ ~reverse /\ pc = "done"
    /\ abstract_hunks[1].chunk[ANTE].lines = post_lines(hunks[1])
    /\ abstract_hunks[1].chunk[POST].lines = ante_lines(hunks[1])
    /\ abstract_hunks[1].chunk[ANTE].lines # <<>>
    /\ result.successes + result.already_applied >= 1
    /\ result.lines # lines

\* the lines of the output of a sequence of line sequences, summed
RECURSIVE TotalLen(_)
TotalLen(seqs) ==
    IF seqs = <<>> THEN 0 ELSE Len(Head(seqs)) + TotalLen(Tail(seqs))

\* C25.  Decomposer progress and termination: parse_lines returns on every
\* input; it returns Ok(None) exactly when get_diff_plus_at recognises a
\* diff-plus at no index of the input; and a patch it returns has for header
\* the lines before the first index at which one is recognised, as many
\* rubbish blocks as diff-pluses, and header, diff-pluses and rubbish blocks
\* that together hold every line of the input, the scan having moved by the
\* length of each diff-plus, at least 1, and by 1 elsewhere up to the end.
C25_DecomposerProgress ==
    LET at == {i \in 0..(Len(input) - 1) : get_diff_plus_at(input, i).tag = "some"}
    IN  /\ ppc # "overflow"
        /\ ppc = "none" => at = {}
        /\ ppc \in {"patch", "iterated"}
             => /\ at # {}
                /\ patch.header.lines = Slice(input, 0, SetMin(at))
                /\ Len(patch.rubbish) = Len(patch.diff_pluses)
                /\ \A i \in 1..Len(patch.diff_pluses) :
                       Len(DiffPlus_iter(patch.diff_pluses[i])) >= 1
                /\ Len(patch.header.lines)
                       + TotalLen([i \in 1..Len(patch.diff_pluses) |->
                                      DiffPlus_iter(patch.diff_pluses[i])])
                       + TotalLen(patch.rubbish) = Len(input)

\* ------------------------------------ UnifiedDiffParser::get_hunk_at on its own
\* get_hunk_at(lines, 0) on every input that starts with the hunk header and
\* leaves the decomposer room for a file header
HunkCalls ==
    {[fn |-> "UnifiedDiffParser::get_hunk_at", lines |-> <<HunkLine>> \o body, start_index |-> 0] :
        body \in UNION {[1..n -> PatchAlphabet] : n \in 0..(MaxInput - 2)}}

CallGetHunkAt ==
    /\ call \in HunkCalls
    /\ ret = <<>>
    /\ ret' = get_hunk_at("Unified", call.lines, call.start_index)
    /\ UNCHANGED <<evars, pvars, call>>


\* the lines of s that start with one of the prefixes
LinesWith(s, prefixes) ==
    SelectSeq(s, LAMBDA l : \E p \in prefixes : starts_with(l, p))

\* C26.  Unified hunk counts are exact: the body of every hunk get_hunk_at
\* returns from a header '@@ -a,b +c,d @@' holds exactly b lines that start
\* with ' ' or '-' and exactly d lines that start with ' ' or '+'; a body in
\* which one side passes its count before the other side reaches its own is
\* not accepted.
C26_HunkCountsExact ==
    (call \in HunkCalls /\ ret # <<>> /\ ret.tag = "some")
        => LET body == Tail(ret.hunk.lines)
           IN  /\ Len(LinesWith(body, {" ", "-"})) = ret.hunk.ante_chunk.length
               /\ Len(LinesWith(body, {" ", "+"})) = ret.hunk.post_chunk.length

\* ======================================================= context_diff.rs
\* The lines a context hunk is made of.  Both markers name line 1 alone, so
\* start_and_length_from_captures gives (1, 1) for either; no line of this
\* alphabet starts with '\ '.
MaxContext == 5    \* longest input of the context hunk parser, in lines

CtxSeparator == "***************"
CtxAnteMarker == "*** 1 ****"
CtxPostMarker == "--- 1 ----"
CtxAlphabet ==
    {CtxSeparator, CtxAnteMarker, CtxPostMarker, "! a", "+ a", "- a", "  a"}

hunk_start_cre(line) == line = CtxSeparator
hunk_ante_cre(line) == line = CtxAnteMarker
hunk_post_cre(line) == line = CtxPostMarker

\* str::starts_with for the prefixes ContextDiffParser::get_hunk_at tests
ctx_starts_with(line, prefix) ==
    CASE prefix = "! " -> line = "! a"
      [] prefix = "+ " -> line = "+ a"
      [] prefix = " " -> line = "  a"
      [] OTHER -> FALSE

\* line[2..]
ctx_trim_left_2(line) ==
    CASE line = CtxSeparator -> "*************"
      [] line = CtxAnteMarker -> "* 1 ****"
      [] line = CtxPostMarker -> "- 1 ----"
      [] OTHER -> "a"

\* (start, length) of a marker: finish defaults to start
start_and_length_from_captures(line) == [tag |-> "some", start |-> 1, length |-> 1]

\* lines[start_index] panics when start_index is not below lines.len()
get_ante_sal_at(ls, start_index) ==
    IF start_index >= Len(ls) THEN PanicVal
    ELSE IF hunk_ante_cre(ls[start_index + 1])
    THEN start_and_length_from_captures(ls[start_index + 1])
    ELSE ErrAt("SyntaxError", start_index + 1)

get_post_sal_at(ls, start_index) ==
    IF start_index >= Len(ls) THEN PanicVal
    ELSE IF hunk_post_cre(ls[start_index + 1])
    THEN start_and_length_from_captures(ls[start_index + 1])
    ELSE NoneVal

\* the first loop of get_hunk_at, lines 191-199
RECURSIVE ctx_ante_loop(_, _, _, _, _)
ctx_ante_loop(ls, index, ante_count, ante_length, post_start_index) ==
    IF ante_count < ante_length
    THEN LET o_post_sal == get_post_sal_at(ls, index)
         IN  IF o_post_sal.tag = "panic" THEN PanicVal
             ELSE IF o_post_sal.tag = "some"
             THEN [tag |-> "ok", index |-> index, post_start_index |-> index,
                   o_post_sal |-> o_post_sal]
             ELSE ctx_ante_loop(ls, index + 1, ante_count + 1, ante_length, index)
    ELSE [tag |-> "ok", index |-> index, post_start_index |-> post_start_index,
          o_post_sal |-> NoneVal]

\* lines 200-209: the post marker looked for after a full ante body
ctx_post_marker(ls, looped) ==
    IF looped.o_post_sal.tag = "some" THEN looped
    ELSE IF looped.index >= Len(ls) THEN PanicVal
    ELSE LET o_post_sal == get_post_sal_at(ls, looped.index)
         IN  IF o_post_sal.tag = "none" THEN ErrAt("SyntaxError", looped.index + 1)
             ELSE [tag |-> "ok", index |-> looped.index,
                   post_start_index |-> looped.index, o_post_sal |-> o_post_sal]

\* the second loop, lines 211-223: the index it ends at
RECURSIVE ctx_post_loop(_, _, _, _)
ctx_post_loop(ls, index, post_count, post_length) ==
    IF post_count < post_length
    THEN IF index >= Len(ls) THEN PanicVal
         ELSE IF ~(\/ ctx_starts_with(ls[index + 1], "! ")
                   \/ ctx_starts_with(ls[index + 1], "+ ")
                   \/ ctx_starts_with(ls[index + 1], " "))
         THEN IF post_count = 0 THEN SomeVal(index)
              ELSE ErrAt("SyntaxError", index + 1)
         ELSE ctx_post_loop(ls, index + 1, post_count + 1, post_length)
    ELSE SomeVal(index)

\* lines 227-244
ContextDiffHunk(ls, start_index, ante_sal, post_sal, post_start_index, index) ==
    [tag |-> "some",
     hunk |-> [lines |-> Slice(ls, start_index, index),
               ante_chunk |-> [offset |-> 1,
                               start_line_num |-> ante_sal.start,
                               length |-> ante_sal.length,
                               numlines |-> post_start_index - (start_index + 1)],
               post_chunk |-> [offset |-> post_start_index - start_index,
                               start_line_num |-> post_sal.start,
                               length |-> post_sal.length,
                               numlines |-> index - post_start_index]]]

ctx_hunk_after(ls, start_index, ante_sal, marked) ==
    IF marked.tag # "ok" THEN marked
    ELSE LET end == ctx_post_loop(ls, marked.index, 0, marked.o_post_sal.length)
         IN  IF end.tag # "some" THEN end
             ELSE ContextDiffHunk(ls, start_index, ante_sal, marked.o_post_sal,
                                  marked.post_start_index, end.index)

\* ContextDiffParser::get_hunk_at, lines 176-245
ContextDiffParser_get_hunk_at(ls, start_index) ==
    IF ~hunk_start_cre(ls[start_index + 1]) THEN NoneVal
    ELSE LET ante_sal == get_ante_sal_at(ls, start_index + 1)
         IN  IF ante_sal.tag # "some" THEN ante_sal
             ELSE LET looped == ctx_ante_loop(ls, start_index + 2, 0,
                                              ante_sal.length, start_index + 2)
                  IN  IF looped.tag = "panic" THEN PanicVal
                      ELSE ctx_hunk_after(ls, start_index, ante_sal,
                                          ctx_post_marker(ls, looped))

\* ContextDiffHunk::post_lines, lines 63-67
ContextDiffHunk_post_lines(hunk) ==
    LET start == hunk.post_chunk.offset
        end == hunk.post_chunk.offset + hunk.post_chunk.numlines
        kept == Slice(hunk.lines, start, end)
    IN  [i \in 1..Len(kept) |-> ctx_trim_left_2(kept[i])]

\* get_hunk_at(lines, 0) on every input that starts with the separator
ContextCalls ==
    {[fn |-> "ContextDiffParser::get_hunk_at", lines |-> <<CtxSeparator>> \o rest, start_index |-> 0] :
        rest \in UNION {[1..n -> CtxAlphabet] : n \in 0..(MaxContext - 1)}}

CallContextGetHunkAt ==
    /\ call \in ContextCalls
    /\ ret = <<>>
    /\ ret' = ContextDiffParser_get_hunk_at(call.lines, call.start_index)
    /\ UNCHANGED <<evars, pvars, call>>


\* a hunk as the claim lays it out: the separator, the ante marker with its
\* body, then the post marker followed by its content lines
WellFormedContextHunk(ls) ==
    \E n \in 0..1, m \in 1..1 :
        /\ Len(ls) = 3 + n + m
        /\ ls[1] = CtxSeparator
        /\ ls[2] = CtxAnteMarker
        /\ \A i \in 3..(2 + n) : ls[i] \in {"! a", "- a", "  a"}
        /\ ls[3 + n] = CtxPostMarker
        /\ \A i \in (4 + n)..Len(ls) : ls[i] \in {"! a", "+ a", "  a"}

\* C27.  Context hunk extent: for a hunk made of the separator, the ante
\* marker with its body and the post marker followed by its content lines,
\* get_hunk_at returns a hunk whose lines run from the separator through the
\* last post content line and whose post_lines are those content lines
\* without the marker; and on every input, also one that ends at the
\* separator or inside a chunk, it returns Ok or an error and reads no line
\* past the end.
C27_ContextHunkExtent ==
    (call \in ContextCalls /\ ret # <<>>)
        => /\ ret.tag # "panic"
           /\ WellFormedContextHunk(call.lines)
                => /\ ret.tag = "some"
                   /\ ret.hunk.lines = call.lines
                   /\ ContextDiffHunk_post_lines(ret.hunk)
                        = [i \in 1..1 |-> ctx_trim_left_2(call.lines[Len(call.lines)])]

\* ------------------------------ GitPreambleParser::get_preamble_at on its own
\* GitPreamble::get_extra_line_index
get_extra_line_index(preamble, name) ==
    IF name \in DOMAIN preamble.extras THEN SomeVal(preamble.extras[name])
    ELSE NoneVal

\* get_preamble_at(lines, 0) on every input that starts with 'diff --git'
PreambleCalls ==
    {[fn |-> "get_preamble_at", lines |-> <<GitLine>> \o rest, start_index |-> 0] :
        rest \in UNION {[1..n -> PatchAlphabet] : n \in 0..(MaxInput - 2)}}

CallGetPreambleAt ==
    /\ call \in PreambleCalls
    /\ ret = <<>>
    /\ ret' = GitPreamble_at(call.lines, call.start_index)
    /\ UNCHANGED <<evars, pvars, call>>

\* One of the functions above is called, once, on one of its inputs
InitCalls ==
    /\ AtRest
    /\ call \in InequalityCalls \cup HunkCalls \cup ContextCalls \cup PreambleCalls
    /\ ret = <<>>

NextCalls ==
    \/ CallFirstInequality
    \/ CallGetHunkAt
    \/ CallContextGetHunkAt
    \/ CallGetPreambleAt

SpecCalls == InitCalls /\ [][NextCalls]_vars

\* the lines after the first that match an extras pattern, up to the first
\* that matches none
RECURSIVE ExtrasRun(_, _)
ExtrasRun(ls, index) ==
    IF index < Len(ls) /\ extras_cres(ls[index + 1]) # ""
    THEN 1 + ExtrasRun(ls, index + 1)
    ELSE 0

\* C28.  Preamble extent: the preamble get_preamble_at returns at a
\* 'diff --git' line holds that line and the contiguous lines after it that
\* match an extras pattern, up to the first line that matches none or the end
\* of the input, also when a key occurs on more than one line; and
\* get_extra_line_index(key) is the offset from the 'diff --git' line of a
\* line of the preamble that holds that key.
C28_PreambleExtent ==
    (call \in PreambleCalls /\ ret # <<>>)
        => /\ ret.tag = "some"
           /\ GitPreamble_len(ret.preamble) = 1 + ExtrasRun(call.lines, 1)
           /\ \A key \in {"index", "new mode"} :
                LET at == get_extra_line_index(ret.preamble, key)
                    has == {i \in 1..ExtrasRun(call.lines, 1) :
                               extras_cres(call.lines[i + 1]) = key}
                IN  IF has = {} THEN at = NoneVal
                    ELSE at.tag = "some" /\ at.index \in has

\* C29.  Unified lowering start indices: lowering the hunk
\* '@@ -a,b +c,d @@' gives the ante chunk start_index a - 1 when the ante side
\* has lines and a when it has none, and the post chunk start_index c - 1;
\* for every header, also '+0,0' of a pure deletion and '-0,0' of a pure
\* insertion, both are zero-based positions, not below 0, and lowering
\* fails for no other hunk than one whose two sides are equal.
C29_LoweredStartIndices ==
    /\ (pc = "apply" /\ run = 1)
         => \A i \in 1..Len(hunks) :
              LET ante == abstract_hunks[i].chunk[ANTE]
                  post == abstract_hunks[i].chunk[POST]
              IN  /\ ante.start_index =
                         IF Len(ante_lines(hunks[i])) > 0
                         THEN hunks[i].ante_chunk.start_line_num - 1
                         ELSE hunks[i].ante_chunk.start_line_num
                  /\ post.start_index = hunks[i].post_chunk.start_line_num - 1
                  /\ ante.start_index >= 0
                  /\ post.start_index >= 0
    /\ (pc = "panic" /\ abstract_hunks = <<>>)
         => \E i \in 1..Len(hunks) : ante_lines(hunks[i]) = post_lines(hunks[i])

\* C30.  Applied position is well defined: a pass that finds its hunk by
\* strategy (b) or (c) reports it, and does so with L = len(target-side lines)
\* - ante_context_len - post_context_len >= 0 and S = end_posn - L -
\* (post_context_len - p) + 1 >= 1, end_posn being the output length at that
\* moment and p the trailing reduction; no subtraction in get_applied_posn
\* goes below zero.
C30_AppliedPosition ==
    [][(InLoop /\ ~Occurs(SourceSide.lines, lines, PlaceAt))
         => \A oc \in Checks :
              LET cpd == get_compromised_posn(Hunk, lines, lines_index,
                                              FUZZ_FACTOR, reverse, oc)
                  merged == cpd.tag = "some"
                                /\ SliceOk(lines, lines_index, cpd.start_index)
                  already == cpd.tag = "none"
                                /\ is_already_applied(Hunk, lines, current_offset,
                                                      reverse, oc) = "T"
                                /\ SliceOk(lines, lines_index,
                                           end_index(TargetSide) + current_offset)
                  p == IF merged THEN cpd.post_context_redn ELSE 0
                  end_posn == IF merged
                              THEN Len(result.lines) + cpd.start_index - lines_index
                                       + Len(SourceSide.lines)
                                       - cpd.ante_context_redn - cpd.post_context_redn
                              ELSE Len(result.lines) + end_index(TargetSide)
                                       + current_offset - lines_index
                  L == Len(TargetSide.lines) - Hunk.ante_context_len
                           - Hunk.post_context_len
                  S == end_posn - L - (Hunk.post_context_len - p) + 1
              IN  (merged \/ already)
                    => /\ Len(TargetSide.lines) - Hunk.ante_context_len >= 0
                       /\ L >= 0
                       /\ Hunk.post_context_len - p >= 0
                       /\ end_posn - L >= 0
                       /\ end_posn - L - (Hunk.post_context_len - p) >= 0
                       /\ S >= 1
                       /\ pc' # "panic"
                       /\ Writes(IF merged THEN "merged" ELSE "already")
                       /\ err_w'[Len(err_w')].start_posn = S
                       /\ err_w'[Len(err_w')].length = L]_vars

====
